---- MODULE Spec2Model ----
(***************************************************************************)
(* Plan Executor of winky (src/core/executor.py): execute_plan runs an     *)
(* ordered task list with task-level retries (execute_task, a recursive    *)
(* self-call) and whole-plan retries, against a browser whose answers are  *)
(* nondeterministic.  Loop Engine (src/actions/loop.py): LoopAction.execute *)
(* repeats a pattern of steps with pagination and stop conditions.         *)
(* Recorder (src/session_logging/action_logger.py): the session buffer the *)
(* Executor logs every task outcome to, and the session files written from *)
(* it.  Replayer (src/session_logging/replayer.py): replay of a stored     *)
(* session, action by action.                                              *)
(*                                                                         *)
(* Strings that the code takes apart (error texts searched for "timeout",  *)
(* suggested selectors split at " (") are sequences of tokens; every other *)
(* string is a TLA+ string.  Python's None / empty string / empty list in  *)
(* a selector or pattern position is the empty sequence: the code tests    *)
(* them by truthiness only.                                                *)
(***************************************************************************)
EXTENDS Integers, Sequences, FiniteSets, TLC

\* ------------------------------------------------------------------ bounds
MaxTasks == 2
MaxRetriesBound == 2

\* ------------------------------------------------------------ text helpers
None == "None"

Lower(tok) ==
  CASE tok = "Timeout" -> "timeout"
    [] tok = "TIMEOUT" -> "timeout"
    [] tok = "Unknown" -> "unknown"
    [] tok = "Missing" -> "missing"
    [] tok = "Pattern" -> "pattern"
    [] tok = "Either" -> "either"
    [] OTHER -> tok

\* "timeout" in str(result.error).lower()
ContainsTimeout(error) == \E k \in 1..Len(error) : Lower(error[k]) = "timeout"

\* s.split(" (")[0]: the part of s before the first " (" token, all of s if none
SplitFirst(s) ==
  IF \E k \in 1..Len(s) : s[k] = " ("
  THEN LET k == CHOOSE j \in 1..Len(s) :
                  s[j] = " (" /\ \A m \in 1..(j - 1) : s[m] # " ("
       IN SubSeq(s, 1, k - 1)
  ELSE s

\* f"{selector} ({count})" of InspectAction._find_working_selectors
FormatSuggestion(selector, count) == <<selector, " (", ToString(count), ")">>

\* ----------------------------------------------------------------- results
NoData == [kind |-> "None", suggested_selectors |-> <<>>]
EmptyData == [kind |-> "empty", suggested_selectors |-> <<>>]
Rows == [kind |-> "rows", suggested_selectors |-> <<>>]
StatusData == [kind |-> "status_code", suggested_selectors |-> <<>>]
InspectData(suggested) == [kind |-> "inspect", suggested_selectors |-> suggested]

\* Python truthiness of result.data / last_inspect_result
Truthy(data) == data.kind \notin {"None", "empty"}

\* ActionResult; driver records whether the action reached the browser driver
ActionResult(success, data, error, driver) ==
  [success |-> success, data |-> data, error |-> error, driver |-> driver]

ErrTimeout == <<"Timeout", "5000ms", "exceeded.">>
ErrDriver == <<"net::ERR_FAILED">>
ErrUnknownAction(action_name) == <<"Unknown", "action:", action_name>>
ErrMissingParams(p) == <<"Missing", "required", "parameters:", p>>
ErrSelectorRequired == <<"'selector'", "parameter", "is", "required">>
ErrPatternRequired == <<"Pattern", "is", "required">>
ErrClickTarget == <<"Either", "'role',", "'selector',", "or", "'text'", "must", "be", "provided">>

\* ------------------------------------------------------------------- tasks
action_registry ==
  {"click", "navigate", "extract", "type_text", "wait", "loop", "reload",
   "tab", "scroll", "screenshot", "inspect"}

Task(action, url, selector, pattern, save_as) ==
  [action |-> action, url |-> url, selector |-> selector, role |-> None,
   text |-> None, pattern |-> pattern, save_as |-> save_as]

\* the tasks that plans of any length are made of
CorePool ==
  { Task("navigate", "https://example.com", <<>>, <<>>, None),
    Task("navigate", None, <<>>, <<>>, None),
    Task("extract", None, <<".item">>, <<>>, "items"),
    Task("inspect", None, <<>>, <<>>, None),
    Task("hover", None, <<>>, <<>>, None) }

\* the tasks that also occur, as one-task plans
TaskPool ==
  CorePool \cup
  { Task("extract", None, <<>>, <<>>, "items"),
    Task("click", None, <<"button.next">>, <<>>, None),
    Task("click", None, <<>>, <<>>, None),
    Task("loop", None, <<>>, <<"extract">>, "pages"),
    Task("loop", None, <<>>, <<>>, "pages") }

RECURSIVE SeqsUpTo(_, _)
SeqsUpTo(S, n) ==
  IF n = 0 THEN {<<>>}
  ELSE LET shorter == SeqsUpTo(S, n - 1)
       IN shorter \cup {Append(s, x) : s \in {t \in shorter : Len(t) = n - 1}, x \in S}

Plans == SeqsUpTo(CorePool, MaxTasks) \cup {<<t>> : t \in TaskPool}

\* what the page offers to _find_working_selectors
SuggestionLists ==
  { <<>>, <<FormatSuggestion("article", 5), FormatSuggestion(".card", 2)>> }

\* ----------------------------------------------------------------- actions
DriverOutcomes(okData) ==
  {ActionResult(TRUE, d, <<>>, TRUE) : d \in okData}
    \cup {ActionResult(FALSE, NoData, e, TRUE) : e \in {ErrTimeout, ErrDriver}}

\* BaseAction.validate_params(["url"], {"url": url})
validate_params(required, params) ==
  IF params[required] = None THEN ErrMissingParams(required) ELSE <<>>

NavigateExecute(params) ==
  IF validate_params("url", params) # <<>>
  THEN {ActionResult(FALSE, NoData, validate_params("url", params), FALSE)}
  ELSE DriverOutcomes({StatusData})

ExtractExecute(params) ==
  IF params.selector = <<>>
  THEN {ActionResult(FALSE, NoData, ErrSelectorRequired, FALSE)}
  ELSE DriverOutcomes({Rows, EmptyData})

ClickExecute(params) ==
  IF params.role # None \/ params.selector # <<>> \/ params.text # None
  THEN DriverOutcomes({NoData})
  ELSE {ActionResult(FALSE, NoData, ErrClickTarget, FALSE)}

LoopExecute(params) ==
  IF params.pattern = <<>>
  THEN {ActionResult(FALSE, NoData, ErrPatternRequired, FALSE)}
  ELSE {ActionResult(TRUE, Rows, <<>>, TRUE),
        ActionResult(TRUE, EmptyData, <<>>, TRUE),
        ActionResult(FALSE, EmptyData, ErrDriver, TRUE)}

InspectExecute(params) ==
  {ActionResult(TRUE, InspectData(s), <<>>, TRUE) : s \in SuggestionLists}
    \cup {ActionResult(FALSE, NoData, ErrDriver, TRUE)}

\* action.execute(**params) of the registered class
Execute(action_name, params) ==
  CASE action_name = "navigate" -> NavigateExecute(params)
    [] action_name = "extract" -> ExtractExecute(params)
    [] action_name = "click" -> ClickExecute(params)
    [] action_name = "loop" -> LoopExecute(params)
    [] action_name = "inspect" -> InspectExecute(params)
    [] OTHER -> DriverOutcomes({NoData})

\* registry lookup and first execution of execute_task
Invoke(task) ==
  IF task.action \notin action_registry
  THEN {ActionResult(FALSE, NoData, ErrUnknownAction(task.action), FALSE)}
  ELSE Execute(task.action, task)

\* ------------------------------------------------------- executor decisions
ShouldRetryInclusive(result, rc, max) == ~result.success /\ rc <= max

\* if not result.success and retry_count < self.max_retries
ShouldRetry(result, rc, max) == ~result.success /\ rc < max

RepairsAnyExtract(result, action_name, inspected, rc, max) ==
  /\ action_name = "extract"
  /\ Truthy(inspected)
  /\ inspected.suggested_selectors # <<>>
  /\ rc < max

\* the auto-enhance guard: a failed extract, a stored inspection with a
\* non-empty suggested_selectors list, and a retry still available
ShouldRepair(result, action_name, inspected, rc, max) ==
  /\ ~result.success
  /\ action_name = "extract"
  /\ Truthy(inspected)
  /\ inspected.suggested_selectors # <<>>
  /\ rc < max

ReloadsOnAnyError(retry, error) == retry
\* inside the retry branch: if "timeout" in str(result.error).lower():
\* await self.page.reload(...)
Reloads(retry, error) == retry /\ ContainsTimeout(error)

\* one invocation of execute_task as its caller could observe it: the result
\* of the first execution, the result it ended with, whether it re-executed
\* with a suggested selector, reloaded the page, was left by an exception
Invocation(first, result, repair, reload, raised, rc) ==
  [ran |-> TRUE, first |-> first, result |-> result, repaired |-> repair,
   reloaded |-> reload, raised |-> raised, retry_count |-> rc]

NoInvocation ==
  [ran |-> FALSE, first |-> ActionResult(FALSE, NoData, <<>>, FALSE),
   result |-> ActionResult(FALSE, NoData, <<>>, FALSE), repaired |-> FALSE,
   reloaded |-> FALSE, raised |-> FALSE, retry_count |-> 0]

\* max_plan_attempts = self.max_retries
MaxPlanAttempts(max) == max

KeepSuccessCount(previous) == previous

\* success_count = 0 at the start of every attempt
ResetSuccessCount(previous) == 0

PlanSucceededOffByOne(count, ts) == count = Len(ts) - 1

\* if success_count == len(tasks)
PlanSucceeded(count, ts) == count = Len(ts)

LastAttemptEarly(attempts, max_attempts) == attempts >= max_attempts - 1

\* if plan_attempts >= max_plan_attempts: break
LastAttempt(attempts, max_attempts) == attempts >= max_attempts

NoTask == Task(None, None, <<>>, <<>>, None)
NoFailedTask == [present |-> FALSE, task |-> NoTask, error |-> <<>>, index |-> -1]

FailedTaskOneBased(task, error, index) ==
  [present |-> TRUE, task |-> task, error |-> error, index |-> index + 1]

\* failed_task = {"task": task, "error": result.error, "index": i}
FailedTask(task, error, index) ==
  [present |-> TRUE, task |-> task, error |-> error, index |-> index]

UnknownError(failed) == <<"Unknown", "error">>
\* error=failed_task.get("error") if failed_task else "Unknown error"
SessionError(failed) ==
  IF failed.present THEN failed.error ELSE <<"Unknown", "error">>

\* the entry appended to collected_data
Collected(action_name, data, save_as) ==
  [action |-> action_name, data |-> data, save_as |-> save_as]

\* if result.success and result.data and action_name in ["extract", "loop"]
Collects(result, action_name) ==
  result.success /\ Truthy(result.data) /\ action_name \in {"extract", "loop"}

NoSummary ==
  [kind |-> "none", success |-> FALSE, error |-> <<>>, total_tasks |-> 0,
   completed_tasks |-> 0, attempts |-> 0, failed_task |-> NoFailedTask,
   collected_data |-> <<>>]

EmptyPlanSucceeds == [NoSummary EXCEPT !.kind = "no_tasks", !.success = TRUE]
\* return {"success": False, "error": "No tasks to execute"}
NoTasksSummary ==
  [NoSummary EXCEPT !.kind = "no_tasks", !.error = <<"No", "tasks", "to", "execute">>]

SuccessSummary(ts, count, attempts, data) ==
  [NoSummary EXCEPT !.kind = "success", !.success = TRUE, !.total_tasks = Len(ts),
                    !.completed_tasks = count, !.attempts = attempts,
                    !.collected_data = data]

FailureSummary(ts, count, attempts, failed, data) ==
  [NoSummary EXCEPT !.kind = "failure", !.total_tasks = Len(ts),
                    !.completed_tasks = count, !.attempts = attempts,
                    !.failed_task = failed, !.collected_data = data]

\* ------------------------------------------------------------- Loop Engine
MaxIterations == 3

ErrNoActionName == <<"Action", "name", "not", "specified", "in", "step">>

\* pagination: None (or an empty dict) is NoPagination; a missing "type" or
\* "selector" key is None / the empty sequence
NoPagination == [present |-> FALSE, type |-> None, selector |-> <<>>]
Pagination(type, selector) == [present |-> TRUE, type |-> type, selector |-> selector]

\* stop_condition: None (or an empty dict) is NoStopCondition; a missing
\* "type" key is None; has_value tells whether the "value" key is there
NoStopCondition == [present |-> FALSE, type |-> None, has_value |-> FALSE, value |-> 0]
StopOn(type) == [present |-> TRUE, type |-> type, has_value |-> FALSE, value |-> 0]
StopAt(type, value) == [present |-> TRUE, type |-> type, has_value |-> TRUE, value |-> value]

\* the steps patterns are made of (a step is a dict with an "action" key and
\* the action's parameters beside it)
StepExtract == Task("extract", None, <<".item">>, <<>>, "items")
StepClick == Task("click", None, <<"a.more">>, <<>>, None)
StepWait == Task("wait", None, <<>>, <<>>, None)
StepHover == Task("hover", None, <<>>, <<>>, None)
StepUnnamed == Task(None, None, <<".item">>, <<>>, None)

Patterns ==
  { <<>>, <<StepExtract>>, <<StepExtract, StepClick>>, <<StepClick, StepExtract>>,
    <<StepWait, StepExtract>>, <<StepHover>>, <<StepUnnamed>> }

Paginations ==
  { NoPagination, Pagination("click", <<"a.next">>), Pagination(None, <<"a.next">>),
    Pagination("click", <<>>), Pagination("scroll", <<>>), Pagination("infinite", <<>>) }

StopConditions ==
  {NoStopCondition, StopOn("max_iterations"), StopOn("empty_results"),
   StopOn("no_next_button")}
    \cup {StopAt(t, v) : t \in {"max_iterations", None}, v \in 0..MaxIterations}

\* LoopAction(page, action_registry): the Executor passes its registry, the
\* default is the empty one
Registries == {action_registry, {}}

LoopArgs(pattern, pagination, stop_condition, on_empty, max_iterations, registry) ==
  [pattern |-> pattern, pagination |-> pagination, stop_condition |-> stop_condition,
   on_empty |-> on_empty, max_iterations |-> max_iterations, registry |-> registry]

NoLoopArgs == LoopArgs(<<>>, NoPagination, NoStopCondition, "stop", 0, {})

\* stop_type as parsed from stop_condition
StopType(stop_condition) ==
  IF stop_condition.present /\ stop_condition.type # None
  THEN stop_condition.type
  ELSE "max_iterations"

\* stop_value as parsed from stop_condition
StopValue(stop_condition, max_iterations) ==
  IF stop_condition.present /\ stop_condition.has_value
  THEN stop_condition.value
  ELSE max_iterations

\* _extract_inline: query_selector_all of no selector raises, which is caught
extract_inline(step) ==
  IF step.selector = <<>>
  THEN {ActionResult(FALSE, NoData, ErrDriver, TRUE)}
  ELSE DriverOutcomes({Rows, EmptyData})

\* _click_inline
click_inline(step) ==
  IF step.selector = <<>>
  THEN {ActionResult(FALSE, NoData, ErrDriver, TRUE)}
  ELSE DriverOutcomes({NoData})

\* _wait_inline
wait_inline(step) == {ActionResult(TRUE, NoData, <<>>, FALSE)}

\* _execute_step
execute_step(step, registry) ==
  IF step.action = None
  THEN {ActionResult(FALSE, NoData, ErrNoActionName, FALSE)}
  ELSE IF step.action \notin registry
  THEN CASE step.action = "extract" -> extract_inline(step)
         [] step.action = "click" -> click_inline(step)
         [] step.action = "wait" -> wait_inline(step)
         [] OTHER -> {ActionResult(FALSE, NoData, ErrUnknownAction(step.action), FALSE)}
  ELSE Execute(step.action, step)

StepNeverBreaks(result) == FALSE

\* if not result.success: pattern_success = False; break
StepBreaks(result) == ~result.success

\* what one pass over the pattern leaves behind
PatternRun(data, success, executed, failed_at) ==
  [iteration_data |-> data, pattern_success |-> success, executed |-> executed,
   failed_at |-> failed_at]

\* the for loop over pattern from step k on: iteration_data holds the
\* positions of the steps whose data was appended, executed counts the
\* _execute_step calls, failed_at is the position of the first failed step
RECURSIVE RunPattern(_, _, _)
RunPattern(pattern, k, registry) ==
  IF k > Len(pattern)
  THEN {PatternRun(<<>>, TRUE, 0, 0)}
  ELSE UNION
    { IF StepBreaks(result)
      THEN {PatternRun(<<>>, FALSE, 1, k)}
      ELSE { PatternRun((IF Truthy(result.data) THEN <<k>> ELSE <<>>) \o rest.iteration_data,
                        result.success /\ rest.pattern_success, rest.executed + 1,
                        IF result.success THEN rest.failed_at ELSE k)
             : rest \in RunPattern(pattern, k + 1, registry) }
      : result \in execute_step(pattern[k], registry) }

\* one element of collected_data: the data step `step` returned in iteration n
Item(n, step) == [iteration |-> n, step |-> step]
Items(n, steps) == [k \in 1..Len(steps) |-> Item(n, steps[k])]

\* what page.query_selector finds for the pagination selector: no element,
\* or an element whose "disabled" attribute is missing (None), bare (the
\* empty string) or has a value
NoElement == [present |-> FALSE, disabled |-> None]
Element(disabled) == [present |-> TRUE, disabled |-> disabled]
Elements == {NoElement, Element(None), Element(""), Element("disabled")}

\* if is_disabled: a missing attribute and a bare one are both falsy
AttributeTruthy(value) == value \notin {None, ""}

\* what one _paginate call did: the answer, what the selector matched, the
\* click() calls issued, whether an exception was caught
Paginated(has_next, element, clicks, raised) ==
  [has_next |-> has_next, element |-> element, clicks |-> clicks, raised |-> raised]

ExceptionMeansNextPage == TRUE

\* except Exception: return False
ExceptionMeansNoNextPage == FALSE

AbsentMeansNextPage(next_button) == FALSE

\* if not next_button: return False
NoNextButton(next_button) == ~next_button.present

\* the click branch of _paginate
paginate_click(selector) ==
  {Paginated(ExceptionMeansNoNextPage, NoElement, 0, TRUE)}
    \cup
  (IF selector = <<>>
   THEN {}
   ELSE UNION
     { IF NoNextButton(next_button)
       THEN {Paginated(FALSE, next_button, 0, FALSE)}
       ELSE IF AttributeTruthy(next_button.disabled)
       THEN {Paginated(FALSE, next_button, 0, FALSE),
             Paginated(ExceptionMeansNoNextPage, next_button, 0, TRUE)}
       ELSE {Paginated(TRUE, next_button, 1, FALSE),
             Paginated(ExceptionMeansNoNextPage, next_button, 1, TRUE)}
       : next_button \in Elements })

\* the scroll branch of _paginate
paginate_scroll ==
  {Paginated(TRUE, NoElement, 0, FALSE),
   Paginated(ExceptionMeansNoNextPage, NoElement, 0, TRUE)}

\* pagination.get("type", "click")
PaginationType(pagination) ==
  IF pagination.type = None THEN "click" ELSE pagination.type

\* _paginate
paginate(pagination) ==
  CASE PaginationType(pagination) = "click" -> paginate_click(pagination.selector)
    [] PaginationType(pagination) = "scroll" -> paginate_scroll
    [] OTHER -> {Paginated(FALSE, NoElement, 0, FALSE)}

NotPaginated == Paginated(FALSE, NoElement, 0, FALSE)

WhileConditionInclusive(iteration, max_iterations) == iteration <= max_iterations

\* while iteration < max_iterations
WhileCondition(iteration, max_iterations) == iteration < max_iterations

EmptyNeverStops(iteration_data, on_empty) == FALSE

\* if not iteration_data: if on_empty == "stop": break
EmptyStops(iteration_data, on_empty) == iteration_data = <<>> /\ on_empty = "stop"

\* if stop_type == "max_iterations" and iteration >= stop_value: break
StopValueReached(stop_type, iteration, stop_value) ==
  stop_type = "max_iterations" /\ iteration >= stop_value

\* if stop_type == "empty_results" and not iteration_data: break
EmptyResultsStop(stop_type, iteration_data) ==
  stop_type = "empty_results" /\ iteration_data = <<>>

NoNextPageGoesOn(has_next) == FALSE

\* if not has_next: break
NoNextPageStops(has_next) == ~has_next

NoPaginationGoesOn(pagination) == FALSE

\* if pagination: ... else: break
NoPaginationStops(pagination) == ~pagination.present

\* the ActionResult of LoopAction.execute; iterations is -1 and stop_reason
\* None where the metadata has no such key
LoopResult(success, data, error, iterations, stop_reason) ==
  [success |-> success, data |-> data, error |-> error,
   metadata |-> [iterations |-> iterations,
                 items_collected |-> IF stop_reason = None THEN -1 ELSE Len(data),
                 stop_reason |-> stop_reason]]

NoLoopResult == LoopResult(FALSE, <<>>, <<>>, -1, None)

\* if not pattern: return ActionResult(success=False, error="Pattern is required")
PatternRequired == LoopResult(FALSE, <<>>, ErrPatternRequired, -1, None)

\* the return after the while loop
LoopCompleted(data, iteration, stop_type) ==
  LoopResult(TRUE, data, <<>>, iteration, stop_type)

\* ------------------------------------------------------------------- state
VARIABLES
  max_retries,          \* Executor.max_retries
  collected_data,       \* Executor.collected_data
  last_inspect_result,  \* Executor.last_inspect_result (NoData is None)
  tasks,                \* the list execute_plan was called with (its dicts are shared)
  stop_on_error,
  retry_full_plan,
  plan_attempts,
  success_count,
  failed_task,
  i,                    \* 0-based index of the for loop over tasks
  retry_count,          \* retry_count of the current execute_task invocation
  pc,                   \* "idle", "attempt", "task", "check", "done", "raised"
  summary,              \* what execute_plan returned
  inspect_stale,        \* last_inspect_result was stored by an earlier execute_plan call
  seen,                 \* positions of the tasks executed at least once in this run
  ever_ok,              \* positions of the tasks with a successful execution in this run
  first_failed,         \* some task's first execution of this run failed
  top_results,          \* per task: outcome execute_task returned in this attempt
  attempt_data,         \* entries collected during the current attempt
  attempts_run,         \* number of times the for loop over tasks was started
  execs,                \* executions of the current task since execute_plan called execute_task
  repairs,              \* selector repairs of the current task, likewise
  driver_calls,         \* executions of the current task that reached the browser driver
  counted_task,         \* 0-based index of the task the three counters are about
  last_call,            \* the latest execute_task invocation: its results, what it did
  calls_started         \* execute_task calls execute_plan has made in this run

plan_vars ==
  <<max_retries, collected_data, last_inspect_result, tasks, stop_on_error,
    retry_full_plan, plan_attempts, success_count, failed_task, i, retry_count,
    pc, summary, inspect_stale, seen, ever_ok, first_failed, top_results, attempt_data,
    attempts_run, execs, repairs, driver_calls, counted_task, last_call,
    calls_started>>
\* if pagination:
HasPagination(pagination) == pagination.present

NoPaginationContinues == FALSE

\* else: break ("No pagination, single iteration")
NoPaginationBreaks == TRUE

\* -------------------------------------------------------- Loop Engine state
VARIABLES
  loop_pc,              \* "idle", "while", "paginate", "returned"
  loop_args,            \* the arguments LoopAction.execute was called with
  iteration,            \* the local `iteration`
  loop_collected_data,  \* LoopAction.collected_data
  loop_result,          \* the ActionResult LoopAction.execute returned
  last_run,             \* the latest pass over the pattern
  last_page,            \* the latest _paginate call
  matched,              \* some _paginate call found an element for the selector
  all_produced,         \* every iteration so far produced data
  ended_by,             \* the statement that ended the loop
  paginations           \* the _paginate calls of this execute call so far

loop_vars ==
  <<loop_pc, loop_args, iteration, loop_collected_data, loop_result, last_run,
    last_page, matched, all_produced, ended_by, paginations>>

\* one pass over the pattern: the iteration, collected_data before it, what
\* it produced, and whether the pass before it had a failed step
Run(n, before, iteration_data, run, previous_failed) ==
  [number |-> n, before |-> before, iteration_data |-> iteration_data,
   pattern_success |-> run.pattern_success, executed |-> run.executed,
   failed_at |-> run.failed_at, previous_failed |-> previous_failed]

NoRun == Run(0, <<>>, <<>>, PatternRun(<<>>, TRUE, 0, 0), FALSE)

PageCall(n, page) ==
  [iteration |-> n, has_next |-> page.has_next, element |-> page.element,
   clicks |-> page.clicks, raised |-> page.raised]

NoPageCall == PageCall(0, NotPaginated)

LoopIdle ==
  /\ loop_pc = "idle"
  /\ loop_args = NoLoopArgs
  /\ iteration = 0
  /\ loop_collected_data = <<>>
  /\ loop_result = NoLoopResult
  /\ last_run = NoRun
  /\ last_page = NoPageCall
  /\ matched = FALSE
  /\ all_produced = TRUE
  /\ ended_by = "none"
  /\ paginations = 0

\* ---------------------------------------------------------- recorder state
VARIABLES
  session_id,           \* ActionLogger.session_id (None outside a session)
  actions,              \* ActionLogger.actions: the buffered log entries
  recorded,             \* the model follows the content of the buffer (the recorder
                        \* specifications) or leaves it out (the other specifications)
  logs,                 \* the files of logs_dir: session id -> the JSON text written
  free_ids,             \* the session ids uuid4 has not produced so far
  logged                \* the entries as they were when log_action was called with them

recorder_vars == <<session_id, actions, recorded, logs, free_ids, logged>>

\* f"session_{uuid.uuid4().hex[:8]}" of the sessions that are followed
SessionIds == {"session_1f0c9a2e", "session_7b3d5e80"}
FirstSessionId == "session_1f0c9a2e"

RepeatedSessionId(free) == FirstSessionId
\* uuid4 yields an id that no earlier session has; which one is immaterial
NewSessionId(free) == CHOOSE id \in free : TRUE

LogEntryOfSuccess(task, result) == [task |-> task, success |-> TRUE, error |-> <<>>]
\* log_entry of log_action.  "params" is the params dict of the task itself
\* (no copy is made): task is the position of that task in the list
\* execute_plan was called with, and the entry's params are read through it
LogEntry(task, result) ==
  [task |-> task, success |-> result.success, error |-> result.error]

\* the entries as json.dump(log_data) or a reader of ActionLogger.actions
\* finds them: action and params are those of the referenced task dict now
LoggedActions(entries, ts) ==
  [k \in 1..Len(entries) |->
     [action |-> ts[entries[k].task].action, params |-> ts[entries[k].task],
      success |-> entries[k].success, error |-> entries[k].error]]

\* log_data of end_session
LogData(id, entries, ts, success, error) ==
  [session_id |-> id, success |-> success, error |-> error,
   action_count |-> Len(entries), actions |-> LoggedActions(entries, ts)]

\* what get_log returns for a missing file (None)
NoLog ==
  [session_id |-> None, success |-> FALSE, error |-> <<>>, action_count |-> 0,
   actions |-> <<>>]

\* json.dump: None is written as null, True/False as true/false, a str as a
\* string, an int as a number, a list as an array, a dict member for member
json_null == [json |-> "null"]
json_string(s) == [json |-> "string", value |-> s]
json_number(n) == [json |-> "number", value |-> n]
json_bool(b) == [json |-> IF b THEN "true" ELSE "false"]
json_optional(s) == IF s = None THEN json_null ELSE json_string(s)
json_text(t) == IF t = <<>> THEN json_null ELSE json_string(t)

json_params(params) ==
  [action |-> json_string(params.action), url |-> json_optional(params.url),
   selector |-> json_text(params.selector), role |-> json_optional(params.role),
   text |-> json_optional(params.text), pattern |-> json_text(params.pattern),
   save_as |-> json_optional(params.save_as)]

json_entry(entry) ==
  [action |-> json_string(entry.action), params |-> json_params(entry.params),
   success |-> json_bool(entry.success), error |-> json_text(entry.error)]

json_dump(log_data) ==
  [session_id |-> json_string(log_data.session_id),
   success |-> json_bool(log_data.success),
   error |-> json_text(log_data.error),
   action_count |-> json_number(log_data.action_count),
   actions |-> [k \in 1..Len(log_data.actions) |-> json_entry(log_data.actions[k])]]

\* json.load: null is read as None, true/false as True/False
load_optional(j) == IF j.json = "null" THEN None ELSE j.value
load_text(j) == IF j.json = "null" THEN <<>> ELSE j.value
load_bool(j) == j.json = "true"

load_params(j) ==
  [action |-> j.action.value, url |-> load_optional(j.url),
   selector |-> load_text(j.selector), role |-> load_optional(j.role),
   text |-> load_optional(j.text), pattern |-> load_text(j.pattern),
   save_as |-> load_optional(j.save_as)]

load_entry(j) ==
  [action |-> j.action.value, params |-> load_params(j.params),
   success |-> load_bool(j.success), error |-> load_text(j.error)]

json_load(text) ==
  [session_id |-> text.session_id.value,
   success |-> load_bool(text.success),
   error |-> load_text(text.error),
   action_count |-> text.action_count.value,
   actions |-> [k \in 1..Len(text.actions) |-> load_entry(text.actions[k])]]

\* open(filepath, "w") and json.dump into it: the file of that name is replaced
WriteFile(files, name, text) ==
  [f \in DOMAIN files \cup {name} |-> IF f = name THEN text ELSE files[f]]

\* an empty logs_dir
NoFiles == [f \in {} |-> json_dump(NoLog)]

\* ActionLogger.get_log over the files of logs_dir
ReadLog(files, id) == IF id \in DOMAIN files THEN json_load(files[id]) ELSE NoLog
get_log(id) == ReadLog(logs, id)

KeepActions(previous) == previous
\* self.actions = []
NoActions(previous) == <<>>

\* ActionLogger.__init__
RecorderIdle ==
  /\ session_id = None
  /\ actions = <<>>
  /\ logged = <<>>

\* ActionLogger.start_session
start_session ==
  /\ recorded => free_ids # {}
  /\ session_id' = IF recorded THEN NewSessionId(free_ids) ELSE "session"
  /\ free_ids' = IF recorded THEN free_ids \ {NewSessionId(free_ids)} ELSE free_ids
  /\ actions' = NoActions(actions)
  /\ logged' = <<>>
  /\ UNCHANGED <<recorded, logs>>

\* ActionLogger.log_action
log_action(task, result) ==
  /\ actions' = IF recorded THEN Append(actions, LogEntry(task, result)) ELSE actions
  /\ logged' = IF recorded
               THEN logged \o LoggedActions(<<LogEntry(task, result)>>, tasks')
               ELSE logged
  /\ UNCHANGED <<session_id, recorded, logs, free_ids>>

\* ActionLogger.end_session: the record is written, then the session is reset
end_session(success, error) ==
  /\ logs' = IF recorded /\ session_id # None
             THEN WriteFile(logs, session_id,
                            json_dump(LogData(session_id, actions, tasks, success, error)))
             ELSE logs
  /\ session_id' = None
  /\ actions' = NoActions(actions)
  /\ logged' = <<>>
  /\ UNCHANGED <<recorded, free_ids>>

\* ---------------------------------------------------------- replayer state
VARIABLES
  replay_pc,             \* "idle", "action", "returned"
  replay_args,           \* session_id, stop_on_error, the Replayer's action_registry
  replay_actions,        \* actions of replay: log_data["actions"]
  replay_i,              \* i of the for loop over the recorded actions
  results,               \* results of replay
  replay_success_count,  \* success_count of replay
  replay_result,         \* what replay returned
  page_calls             \* the calls on the page made by this replay, each with the
                         \* position of the recorded action it was made for

replay_vars ==
  <<replay_pc, replay_args, replay_actions, replay_i, results,
    replay_success_count, replay_result, page_calls>>

MaxLogged == 2

ErrSessionNotFound(id) == <<"Session", "not", "found:", id>>
ErrNoActions == <<"No", "actions", "to", "replay">>

\* a session id with no file in logs_dir
MissingSessionId == "session_00000000"
\* the id of a session written by an earlier run of the program
StoredSessionId == "session_0c55e1aa"

\* Replayer.__init__ (action_registry or {}) and the arguments of replay
ReplayArgs(id, stop, registry, caller) ==
  [session_id |-> id, stop_on_error |-> stop, action_registry |-> registry,
   caller |-> caller]
NoReplayArgs == ReplayArgs(None, TRUE, {}, "none")

\* Orchestrator.replay: Replayer(page) and replay(session_id, speed)
OrchestratorReplay(id) == ReplayArgs(id, TRUE, {}, "Orchestrator.replay")

\* the dict _execute_action returns, or the exception it raises; calls are
\* the calls it made on the page
Outcome(success, error, skipped, raised, calls) ==
  [success |-> success, error |-> error, skipped |-> skipped, raised |-> raised,
   calls |-> calls]
ReplayOk(calls) == Outcome(TRUE, <<>>, FALSE, FALSE, calls)
ReplayFailed(error, calls) == Outcome(FALSE, error, FALSE, FALSE, calls)
ReplaySkipped == Outcome(TRUE, <<>>, TRUE, FALSE, <<>>)
ReplayRaised(calls) == Outcome(FALSE, ErrDriver, FALSE, TRUE, calls)

\* the inline branches of _execute_action
replay_navigate(params) ==
  IF params.url = None
  THEN {ReplayFailed(ErrDriver, <<"goto">>)}
  ELSE {ReplayOk(<<"goto">>), ReplayFailed(ErrTimeout, <<"goto">>)}

replay_click(params) ==
  IF params.selector # <<>> \/ params.text # None
  THEN {ReplayOk(<<"click">>), ReplayFailed(ErrTimeout, <<"click">>)}
  ELSE {ReplayOk(<<>>)}

replay_type_text(params) ==
  {ReplayOk(<<"fill", "type">>), ReplayFailed(ErrTimeout, <<"fill">>)}

replay_wait(params) == {ReplayOk(<<>>)}

replay_extract_again(params) ==
  {ReplayOk(<<"extract">>), ReplayFailed(ErrSelectorRequired, <<>>)}
\* Skip extraction during replay
replay_extract(params) == {ReplaySkipped}

\* action_class(self.page), action.execute(**params), result.to_dict()
replay_registered(action_name, params) ==
  {ReplayOk(<<action_name>>), ReplayFailed(ErrDriver, <<action_name>>),
   ReplayRaised(<<>>)}

\* Replayer._execute_action
execute_action(action_name, params, registry) ==
  CASE action_name = "navigate" -> replay_navigate(params)
    [] action_name = "click" -> replay_click(params)
    [] action_name = "type_text" -> replay_type_text(params)
    [] action_name = "wait" -> replay_wait(params)
    [] action_name = "extract" -> replay_extract(params)
    [] OTHER -> IF action_name \in registry
                THEN replay_registered(action_name, params)
                ELSE {ReplayFailed(ErrUnknownAction(action_name), <<>>)}

\* what replay appends to results
ResultEntry(outcome) ==
  [success |-> outcome.success, error |-> outcome.error, skipped |-> outcome.skipped]

\* the dicts replay returns
NoReplayResult ==
  [success |-> FALSE, error |-> <<>>, total_actions |-> -1,
   successful_actions |-> -1, results |-> <<>>]
ReplayError(error) == [NoReplayResult EXCEPT !.error = error]
ReplaySucceededAlways(count, recorded_actions) == TRUE
\* success_count == len(actions)
ReplaySucceeded(count, recorded_actions) == count = Len(recorded_actions)
ReplayResult(recorded_actions, count, outcomes) ==
  [success |-> ReplaySucceeded(count, recorded_actions), error |-> <<>>,
   total_actions |-> Len(recorded_actions), successful_actions |-> count,
   results |-> outcomes]

NeverStopsOnError(outcome, stop) == FALSE
\* if stop_on_error: break
StopsOnError(outcome, stop) == ~outcome.success /\ stop

ReplayIdle ==
  /\ replay_pc = "idle"
  /\ replay_args = NoReplayArgs
  /\ replay_actions = <<>>
  /\ replay_i = 0
  /\ results = <<>>
  /\ replay_success_count = 0
  /\ replay_result = NoReplayResult
  /\ page_calls = <<>>

\* the recorded actions of the sessions that earlier runs have left in logs_dir
RoleClick == [Task("click", None, <<>>, <<>>, None) EXCEPT !.role = "button"]
TypeTask == [Task("type_text", None, <<"input#q">>, <<>>, None) EXCEPT !.text = "winky"]
Recorded(task, success, error) ==
  [action |-> task.action, params |-> task, success |-> success, error |-> error]
ReplayPool ==
  { Recorded(Task("navigate", "https://example.com", <<>>, <<>>, None), TRUE, <<>>),
    Recorded(Task("click", None, <<"button.next">>, <<>>, None), TRUE, <<>>),
    Recorded(RoleClick, TRUE, <<>>),
    Recorded(TypeTask, TRUE, <<>>),
    Recorded(Task("wait", None, <<>>, <<>>, None), TRUE, <<>>),
    Recorded(Task("extract", None, <<".item">>, <<>>, "items"), TRUE, <<>>),
    Recorded(Task("scroll", None, <<>>, <<>>, None), TRUE, <<>>),
    Recorded(Task("hover", None, <<>>, <<>>, None), FALSE, ErrUnknownAction("hover")) }

StoredLogs ==
  { WriteFile(NoFiles, StoredSessionId,
              json_dump([session_id |-> StoredSessionId, success |-> TRUE,
                         error |-> <<>>, action_count |-> Len(entries),
                         actions |-> entries])) :
      entries \in SeqsUpTo(ReplayPool, MaxLogged) }

\* ------------------------------------------------------------ the process
VARIABLES
  command               \* what the process drives the page for: "run" (the plan of
                        \* a goal), "loop" (a loop action on its own), "replay"

vars == <<plan_vars, loop_vars, recorder_vars, replay_vars, command>>

executor_fields == <<max_retries, collected_data, last_inspect_result>>
plan_args == <<tasks, stop_on_error, retry_full_plan>>
task_counters ==
  <<execs, repairs, driver_calls, counted_task, last_call, calls_started>>
run_history == <<seen, ever_ok, first_failed>>

Pending == [state |-> "pending", error |-> <<>>, retries |-> 0]
TopResult(result, retries) ==
  [state |-> IF result.success THEN "ok" ELSE "failed", error |-> result.error,
   retries |-> retries]

Constructed ==
  /\ max_retries \in 0..MaxRetriesBound
  /\ collected_data = <<>>
  /\ last_inspect_result = NoData
  /\ tasks = <<>>
  /\ stop_on_error = TRUE
  /\ retry_full_plan = TRUE
  /\ plan_attempts = 0
  /\ success_count = 0
  /\ failed_task = NoFailedTask
  /\ i = 0
  /\ retry_count = 0
  /\ pc = "idle"
  /\ summary = NoSummary
  /\ inspect_stale = FALSE
  /\ seen = {}
  /\ ever_ok = {}
  /\ first_failed = FALSE
  /\ top_results = <<>>
  /\ attempt_data = <<>>
  /\ attempts_run = 0
  /\ execs = 0
  /\ repairs = 0
  /\ driver_calls = 0
  /\ counted_task = -1
  /\ last_call = NoInvocation
  /\ calls_started = 0
  /\ LoopIdle
  /\ RecorderIdle
  /\ ReplayIdle

Unrecorded == recorded = FALSE /\ free_ids = {} /\ logs = NoFiles

Init == Constructed /\ Unrecorded /\ command = "run"

\* execute_plan up to the while loop: the empty-list return, start_session,
\* the reset of collected_data
ExecutePlan ==
  /\ pc = "idle"
  /\ \E ts \in Plans, soe \in BOOLEAN, rfp \in BOOLEAN :
       /\ tasks' = ts
       /\ stop_on_error' = soe
       /\ retry_full_plan' = rfp
       /\ top_results' = [k \in 1..Len(ts) |-> Pending]
       /\ IF ts = <<>>
          THEN /\ summary' = NoTasksSummary
               /\ pc' = "done"
               /\ UNCHANGED <<collected_data, recorder_vars>>
          ELSE /\ summary' = NoSummary
               /\ pc' = "attempt"
               /\ start_session
               /\ collected_data' = <<>>
  /\ plan_attempts' = 0
  /\ success_count' = 0
  /\ failed_task' = NoFailedTask
  /\ i' = 0
  /\ retry_count' = 0
  /\ attempt_data' = <<>>
  /\ attempts_run' = 0
  /\ execs' = 0
  /\ repairs' = 0
  /\ driver_calls' = 0
  /\ counted_task' = -1
  /\ last_call' = NoInvocation
  /\ calls_started' = 0
  /\ seen' = {}
  /\ ever_ok' = {}
  /\ first_failed' = FALSE
  /\ UNCHANGED <<max_retries, last_inspect_result, inspect_stale>>
  /\ UNCHANGED <<loop_vars, replay_vars, command>>

\* the head of the while loop and the start of one attempt.  When the loop
\* body never ran (max_retries = 0) the code after the loop reads
\* failed_task and success_count, which were never assigned: it raises.
PlanAttempt ==
  /\ pc = "attempt"
  /\ IF plan_attempts < MaxPlanAttempts(max_retries)
     THEN /\ plan_attempts' = plan_attempts + 1
          /\ success_count' = ResetSuccessCount(success_count)
          /\ failed_task' = NoFailedTask
          /\ i' = 0
          /\ pc' = "task"
          /\ attempts_run' = attempts_run + 1
          /\ top_results' = [k \in 1..Len(tasks) |-> Pending]
          /\ attempt_data' = <<>>
          /\ UNCHANGED <<summary, recorder_vars>>
     ELSE /\ IF plan_attempts = 0
             THEN pc' = "raised" /\ UNCHANGED <<summary, recorder_vars>>
             ELSE /\ pc' = "done"
                  /\ end_session(FALSE, SessionError(failed_task))
                  /\ summary' = FailureSummary(tasks, success_count, plan_attempts,
                                                failed_task, collected_data)
          /\ UNCHANGED <<plan_attempts, success_count, failed_task, i,
                         attempts_run, top_results, attempt_data>>
  /\ retry_count' = 0
  /\ UNCHANGED <<executor_fields, plan_args, inspect_stale, run_history, task_counters>>
  /\ UNCHANGED <<loop_vars, replay_vars, command>>

BreaksOnAnyFailure(result, stop) == ~result.success
\* the else branch of the for loop: if stop_on_error: break
Breaks(result, stop) == ~result.success /\ stop

FirstTask(index) == 0
\* for i, task in enumerate(tasks)
NextTask(index) == index + 1

\* execute_task returned `result` to the for loop of execute_plan: log,
\* collect, count or record the failure, break or move to the next task
TaskReturns(task, result) ==
  /\ log_action(i + 1, result)
  /\ collected_data' =
       IF Collects(result, task.action)
       THEN Append(collected_data, Collected(task.action, result.data, task.save_as))
       ELSE collected_data
  /\ attempt_data' =
       IF Collects(result, task.action)
       THEN Append(attempt_data, Collected(task.action, result.data, task.save_as))
       ELSE attempt_data
  /\ top_results' = [top_results EXCEPT ![i + 1] = TopResult(result, retry_count)]
  /\ success_count' = IF result.success THEN success_count + 1 ELSE success_count
  /\ failed_task' =
       IF result.success THEN failed_task ELSE FailedTask(task, result.error, i)
  /\ IF Breaks(result, stop_on_error) \/ i + 1 = Len(tasks)
     THEN pc' = "check" /\ i' = i
     ELSE pc' = "task" /\ i' = NextTask(i)
  /\ retry_count' = 0

\* one invocation of execute_task for tasks[i] at the current retry_count:
\* registry lookup, execution, storing of an inspection, selector repair,
\* then either the wait / reload / recursive retry or the return
ExecuteTask ==
  /\ pc = "task"
  /\ LET task == tasks[i + 1]
         action_name == task.action
         fresh == retry_count = 0
     IN \E first \in Invoke(task) :
        LET stores == first.success /\ action_name = "inspect" /\ Truthy(first.data)
            inspected == IF stores THEN first.data ELSE last_inspect_result
            repair == ShouldRepair(first, action_name, inspected, retry_count, max_retries)
            params == IF repair
                      THEN [task EXCEPT !.selector = SplitFirst(inspected.suggested_selectors[1])]
                      ELSE task
        IN \E result \in (IF repair THEN Execute("extract", params) ELSE {first}) :
           LET retry == ShouldRetry(result, retry_count, max_retries)
               reload == Reloads(retry, result.error)
               executed == (IF action_name \in action_registry THEN 1 ELSE 0)
                           + (IF repair THEN 1 ELSE 0)
               reached == (IF first.driver THEN 1 ELSE 0)
                          + (IF repair /\ result.driver THEN 1 ELSE 0)
           IN \E reload_ok \in (IF reload THEN BOOLEAN ELSE {TRUE}) :
              /\ tasks' = [tasks EXCEPT ![i + 1] = params]
              /\ last_inspect_result' = inspected
              /\ inspect_stale' = IF stores THEN FALSE ELSE inspect_stale
              /\ seen' = seen \cup {i + 1}
              /\ ever_ok' = IF first.success \/ result.success
                            THEN ever_ok \cup {i + 1} ELSE ever_ok
              /\ first_failed' = (first_failed \/ (i + 1 \notin seen /\ ~first.success))
              /\ execs' = (IF fresh THEN 0 ELSE execs) + executed
              /\ repairs' = (IF fresh THEN 0 ELSE repairs) + (IF repair THEN 1 ELSE 0)
              /\ driver_calls' = (IF fresh THEN 0 ELSE driver_calls) + reached
              /\ counted_task' = i
              /\ last_call' = IF recorded
                               THEN Invocation(first, result, repair, reload,
                                               ~reload_ok, retry_count)
                               ELSE last_call
              /\ calls_started' = IF recorded /\ fresh THEN calls_started + 1
                                   ELSE calls_started
              /\ IF ~reload_ok
                 THEN \* page.reload raised: the exception leaves execute_plan
                      /\ pc' = "raised"
                      /\ UNCHANGED <<collected_data, attempt_data, top_results,
                                     success_count, failed_task, i, retry_count,
                                     recorder_vars>>
                 ELSE IF retry
                 THEN \* return await self.execute_task(task, retry_count + 1)
                      /\ retry_count' = retry_count + 1
                      /\ pc' = "task"
                      /\ UNCHANGED <<collected_data, attempt_data, top_results,
                                     success_count, failed_task, i, recorder_vars>>
                 ELSE TaskReturns(params, result)
  /\ UNCHANGED <<max_retries, stop_on_error, retry_full_plan, plan_attempts,
                 summary, attempts_run>>
  /\ UNCHANGED <<loop_vars, replay_vars, command>>

\* after the for loop: return the success summary, give up, or go round
\* the while loop again
CheckPlan ==
  /\ pc = "check"
  /\ IF PlanSucceeded(success_count, tasks)
     THEN /\ summary' = SuccessSummary(tasks, success_count, plan_attempts, collected_data)
          /\ pc' = "done"
          /\ end_session(TRUE, <<>>)
     ELSE IF ~retry_full_plan \/ LastAttempt(plan_attempts, MaxPlanAttempts(max_retries))
     THEN /\ summary' = FailureSummary(tasks, success_count, plan_attempts,
                                        failed_task, collected_data)
          /\ pc' = "done"
          /\ end_session(FALSE, SessionError(failed_task))
     ELSE /\ pc' = "attempt"
          /\ UNCHANGED <<summary, recorder_vars>>
  /\ UNCHANGED <<executor_fields, plan_args, plan_attempts, success_count,
                 failed_task, i, retry_count, inspect_stale, run_history,
                 top_results, attempt_data, attempts_run, task_counters>>
  /\ UNCHANGED <<loop_vars, replay_vars, command>>

\* the caller has the summary (or the exception); the Executor is free for
\* the next execute_plan call
Return ==
  /\ pc \in {"done", "raised"}
  /\ pc' = "idle"
  /\ summary' = NoSummary
  /\ tasks' = <<>>
  /\ plan_attempts' = 0
  /\ success_count' = 0
  /\ failed_task' = NoFailedTask
  /\ i' = 0
  /\ retry_count' = 0
  /\ seen' = {}
  /\ ever_ok' = {}
  /\ first_failed' = FALSE
  /\ top_results' = <<>>
  /\ attempt_data' = <<>>
  /\ attempts_run' = 0
  /\ execs' = 0
  /\ repairs' = 0
  /\ driver_calls' = 0
  /\ counted_task' = -1
  /\ last_call' = NoInvocation
  /\ calls_started' = 0
  /\ stop_on_error' = TRUE
  /\ retry_full_plan' = TRUE
  /\ inspect_stale' = (last_inspect_result # NoData)
  /\ UNCHANGED executor_fields
  /\ UNCHANGED <<loop_vars, recorder_vars, replay_vars, command>>

Next == ExecutePlan \/ PlanAttempt \/ ExecuteTask \/ CheckPlan \/ Return

Spec == Init /\ [][Next]_vars

\* ------------------------------------------------------ Loop Engine actions
LoopReturns(result, how) ==
  /\ loop_pc' = "returned"
  /\ loop_result' = result
  /\ ended_by' = how

\* LoopAction.execute up to the while loop: the pattern check, the reset of
\* collected_data and iteration (stop_type and stop_value are StopType and
\* StopValue of the arguments)
LoopCall ==
  /\ loop_pc = "idle"
  /\ \E pattern \in Patterns, pagination \in Paginations,
        stop_condition \in StopConditions, on_empty \in {"stop", "continue"},
        max_iterations \in 0..MaxIterations, registry \in Registries :
       /\ loop_args' = LoopArgs(pattern, pagination, stop_condition, on_empty,
                                max_iterations, registry)
       /\ IF pattern = <<>>
          THEN LoopReturns(PatternRequired, "pattern_required")
          ELSE /\ loop_pc' = "while"
               /\ UNCHANGED <<loop_result, ended_by>>
  /\ loop_collected_data' = <<>>
  /\ iteration' = 0
  /\ paginations' = 0
  /\ UNCHANGED <<last_run, last_page, matched, all_produced>>
  /\ UNCHANGED <<plan_vars, recorder_vars, replay_vars, command>>

\* the head of the while loop and one iteration up to the pagination: the
\* pattern, the empty-result handling, the extension of collected_data, the
\* stop conditions, the break of a loop without pagination
LoopIteration ==
  /\ loop_pc = "while"
  /\ LET stop_type == StopType(loop_args.stop_condition)
         stop_value == StopValue(loop_args.stop_condition, loop_args.max_iterations)
     IN IF ~WhileCondition(iteration, loop_args.max_iterations)
        THEN /\ LoopReturns(LoopCompleted(loop_collected_data, iteration, stop_type), "while")
             /\ UNCHANGED <<iteration, loop_collected_data, last_run, all_produced>>
        ELSE \E run \in RunPattern(loop_args.pattern, 1, loop_args.registry) :
             LET n == iteration + 1
                 iteration_data == Items(n, run.iteration_data)
                 extended == loop_collected_data \o iteration_data
             IN /\ iteration' = n
                /\ last_run' = Run(n, loop_collected_data, iteration_data, run,
                                    ~last_run.pattern_success)
                /\ all_produced' = (all_produced /\ iteration_data # <<>>)
                /\ IF EmptyStops(iteration_data, loop_args.on_empty)
                   THEN /\ UNCHANGED loop_collected_data
                        /\ LoopReturns(LoopCompleted(loop_collected_data, n, stop_type),
                                       "on_empty")
                   ELSE /\ loop_collected_data' = extended
                        /\ IF StopValueReached(stop_type, n, stop_value)
                           THEN LoopReturns(LoopCompleted(extended, n, stop_type),
                                            "stop_value")
                           ELSE IF EmptyResultsStop(stop_type, iteration_data)
                           THEN LoopReturns(LoopCompleted(extended, n, stop_type),
                                            "empty_results")
                           ELSE IF HasPagination(loop_args.pagination)
                           THEN /\ loop_pc' = "paginate"
                                /\ UNCHANGED <<loop_result, ended_by>>
                           ELSE IF NoPaginationBreaks
                           THEN LoopReturns(LoopCompleted(extended, n, stop_type),
                                            "no_pagination")
                           ELSE /\ loop_pc' = "while"
                                /\ UNCHANGED <<loop_result, ended_by>>
  /\ UNCHANGED <<loop_args, last_page, matched, paginations>>
  /\ UNCHANGED <<plan_vars, recorder_vars, replay_vars, command>>

\* the pagination of one iteration: _paginate, the break when it reports no
\* next page, the delay before the next iteration
LoopPaginate ==
  /\ loop_pc = "paginate"
  /\ \E page \in paginate(loop_args.pagination) :
       /\ last_page' = PageCall(iteration, page)
       /\ paginations' = paginations + 1
       /\ matched' = (matched \/ page.element.present)
       /\ IF NoNextPageStops(page.has_next)
          THEN LoopReturns(LoopCompleted(loop_collected_data, iteration,
                                         StopType(loop_args.stop_condition)),
                           "no_next_page")
          ELSE /\ loop_pc' = "while"
               /\ UNCHANGED <<loop_result, ended_by>>
  /\ UNCHANGED <<loop_args, iteration, loop_collected_data, last_run, all_produced>>
  /\ UNCHANGED <<plan_vars, recorder_vars, replay_vars, command>>

NextLoop == LoopCall \/ LoopIteration \/ LoopPaginate

InitLoop ==
  Constructed /\ Unrecorded /\ max_retries = MaxRetriesBound /\ command = "loop"

SpecLoop == InitLoop /\ [][NextLoop]_vars

\* the Executor with the content of its recorder's buffer followed
InitRecorder ==
  /\ Constructed /\ recorded = TRUE /\ free_ids = {FirstSessionId} /\ logs = NoFiles
  /\ command = "run"

SpecRecorder == InitRecorder /\ [][Next]_vars

\* ------------------------------------------------- recording and replaying
\* the variables of the Executor other than the task list
plan_rest ==
  <<executor_fields, stop_on_error, retry_full_plan, plan_attempts, success_count,
    failed_task, i, retry_count, pc, summary, inspect_stale, run_history,
    top_results, attempt_data, attempts_run, task_counters>>

\* the task lists of the callers that record a session
RecordedPlans ==
  { <<Task("navigate", "https://example.com", <<>>, <<>>, None),
      Task("extract", None, <<".item">>, <<>>, "items")>> }

\* a caller opens a session for the tasks it is about to run
StartSession ==
  /\ pc = "idle"
  /\ replay_pc = "idle"
  /\ \E ts \in RecordedPlans : tasks' = ts
  /\ start_session
  /\ UNCHANGED <<plan_rest, loop_vars, replay_vars, command>>

\* the caller logs the outcome of one of its tasks
LogAction ==
  /\ pc = "idle"
  /\ replay_pc = "idle"
  /\ session_id # None
  /\ Len(actions) < MaxLogged
  /\ UNCHANGED <<plan_vars, loop_vars, replay_vars, command>>
  /\ \E task \in 1..Len(tasks), success \in BOOLEAN :
       log_action(task, ActionResult(success, NoData,
                                     IF success THEN <<>> ELSE ErrDriver, TRUE))

\* the caller closes the session
EndSession ==
  /\ pc = "idle"
  /\ replay_pc = "idle"
  /\ session_id # None
  /\ end_session(TRUE, <<>>)
  /\ tasks' = <<>>
  /\ UNCHANGED <<plan_rest, loop_vars, replay_vars, command>>

\* the replay calls that can be made: through the Orchestrator, or on a
\* Replayer built with a registry
ReplayCalls ==
  LET ids == DOMAIN logs \cup {MissingSessionId}
  IN {OrchestratorReplay(id) : id \in ids}
       \cup {ReplayArgs(id, stop, registry, "Replayer.replay") :
               id \in ids, stop \in BOOLEAN, registry \in Registries}

AlwaysFound(log_data) == FALSE
\* if not log_data:
NotFound(log_data) == log_data = NoLog

ReplayReturns(result) ==
  /\ replay_pc' = "returned"
  /\ replay_result' = result
  /\ UNCHANGED <<replay_actions, replay_i, results, replay_success_count, page_calls>>

\* replay up to the for loop: get_log, the two early returns
ReplayCall ==
  /\ replay_pc = "idle"
  /\ \E args \in ReplayCalls :
       LET log_data == get_log(args.session_id)
       IN /\ replay_args' = args
          /\ IF NotFound(log_data)
             THEN ReplayReturns(ReplayError(ErrSessionNotFound(args.session_id)))
             ELSE IF log_data.actions = <<>>
             THEN ReplayReturns(ReplayError(ErrNoActions))
             ELSE /\ replay_pc' = "action"
                  /\ replay_actions' = log_data.actions
                  /\ UNCHANGED <<replay_i, results, replay_success_count,
                                 replay_result, page_calls>>
  /\ UNCHANGED <<plan_vars, loop_vars, recorder_vars, command>>

\* one pass of the for loop over the recorded actions, and the return after
\* the last pass or the break
ReplayAction ==
  /\ replay_pc = "action"
  /\ LET action_log == replay_actions[replay_i + 1]
     IN \E outcome \in execute_action(action_log.action, action_log.params,
                                      replay_args.action_registry) :
          LET outcomes == Append(results, ResultEntry(outcome))
              count == IF outcome.success THEN replay_success_count + 1
                       ELSE replay_success_count
              over == \/ StopsOnError(outcome, replay_args.stop_on_error)
                      \/ replay_i + 1 = Len(replay_actions)
          IN /\ results' = outcomes
             /\ replay_success_count' = count
             /\ page_calls' =
                  page_calls \o [k \in 1..Len(outcome.calls) |->
                                   [action |-> replay_i + 1, call |-> outcome.calls[k]]]
             /\ IF over
                THEN /\ replay_pc' = "returned"
                     /\ replay_result' = ReplayResult(replay_actions, count, outcomes)
                     /\ UNCHANGED replay_i
                ELSE /\ replay_i' = replay_i + 1
                     /\ UNCHANGED <<replay_pc, replay_result>>
  /\ UNCHANGED <<replay_args, replay_actions, plan_vars, loop_vars, recorder_vars, command>>

\* the caller has the replay result; the page is free for the next command
ReplayReturn ==
  /\ replay_pc = "returned"
  /\ replay_pc' = "idle"
  /\ replay_args' = NoReplayArgs
  /\ replay_actions' = <<>>
  /\ replay_i' = 0
  /\ results' = <<>>
  /\ replay_success_count' = 0
  /\ replay_result' = NoReplayResult
  /\ page_calls' = <<>>
  /\ UNCHANGED <<plan_vars, loop_vars, recorder_vars, command>>

NextReplay ==
  StartSession \/ LogAction \/ EndSession \/ ReplayCall \/ ReplayAction \/ ReplayReturn

\* the recorder and the replayer over a logs_dir that is empty, or holds one
\* session of an earlier run that is only replayed
InitReplay ==
  /\ Constructed
  /\ max_retries = MaxRetriesBound
  /\ recorded = TRUE
  /\ \/ logs = NoFiles /\ free_ids = SessionIds
     \/ logs \in StoredLogs /\ free_ids = {}
  /\ command = "replay"

SpecReplay == InitReplay /\ [][NextReplay]_vars

\* the page under any one of the three: a plan run, a loop, a replay
InitPage == (Init /\ max_retries = MaxRetriesBound) \/ InitLoop \/ InitReplay

NextPage ==
  \/ command = "run" /\ Next
  \/ command = "loop" /\ NextLoop
  \/ command = "replay" /\ NextReplay

SpecPage == InitPage /\ [][NextPage]_vars


\* ------------------------------------------------------------------ claims
Positions == 1..Len(tasks)
Returned == pc = "done" /\ summary.kind \in {"success", "failure"}
OkNow == {k \in Positions : top_results[k].state = "ok"}
FailedNow == {k \in Positions : top_results[k].state = "failed"}
NeverOk == seen \ ever_ok

\* C1: for a non-empty task list, if every task succeeds on its first
\* execution, execute_plan returns success with attempts = 1 and
\* completed_tasks = total_tasks (and does not end in an exception).
C1_FirstTrySuccess ==
  (pc \in {"done", "raised"} /\ tasks # <<>> /\ seen = Positions /\ ~first_failed)
    => /\ pc = "done"
       /\ summary.kind = "success"
       /\ summary.success
       /\ summary.attempts = 1
       /\ summary.total_tasks = Len(tasks)
       /\ summary.completed_tasks = summary.total_tasks

C1_Witness ==
  /\ pc = "done" /\ Len(tasks) = 2 /\ seen = {1, 2} /\ ~first_failed
  /\ summary.success /\ summary.attempts = 1 /\ max_retries = 2

\* C2: with stop_on_error and retry_full_plan, when some task failed on every
\* one of its executions, a returning execute_plan made exactly max_retries
\* (= max_plan_attempts) plan attempts and reports success = false with
\* attempts = max_plan_attempts; when the tasks before the always-failing one
\* succeeded in the last attempt, failed_task.index is its 0-based position.
C2_AlwaysFailingTask ==
  (Returned /\ stop_on_error /\ retry_full_plan /\ NeverOk # {})
    => /\ ~summary.success
       /\ summary.attempts = max_retries
       /\ attempts_run = max_retries
       /\ \A k \in NeverOk :
            (\A j \in 1..(k - 1) : top_results[j].state = "ok")
              => summary.failed_task.present /\ summary.failed_task.index = k - 1

C2_Witness ==
  /\ Returned /\ stop_on_error /\ retry_full_plan /\ max_retries = 2
  /\ Len(tasks) = 2 /\ NeverOk = {2} /\ ever_ok = {1}
  /\ summary.attempts = 2 /\ attempts_run = 2 /\ summary.failed_task.index = 1

\* C3: with stop_on_error, whenever execute_plan returns success = false for
\* a non-empty plan, failed_task is present, its index is the 0-based position
\* of the first task whose failure survived all max_retries task-level retries
\* in the final attempt, its error is that task's final error text, and
\* completed_tasks equals that index.
C3_FailedTaskReport ==
  (Returned /\ stop_on_error /\ ~summary.success)
    => /\ summary.failed_task.present
       /\ FailedNow # {}
       /\ LET first_bad == CHOOSE k \in FailedNow : \A j \in FailedNow : k <= j
          IN /\ summary.failed_task.index = first_bad - 1
             /\ summary.failed_task.error = top_results[first_bad].error
             /\ top_results[first_bad].retries = max_retries
             /\ summary.completed_tasks = first_bad - 1

C3_Witness ==
  /\ Returned /\ stop_on_error /\ ~summary.success /\ Len(tasks) = 2
  /\ summary.failed_task.index = 1 /\ summary.completed_tasks = 1
  /\ summary.failed_task.error = ErrTimeout /\ max_retries = 2

\* C4: a plan attempt counts as successful iff every task succeeded within
\* that same attempt; every attempt starts at task index 0 with no success
\* carried over, and runs the tasks in list order (the tasks seen by the
\* attempt are exactly those before the current index).
C4_AttemptFromScratch ==
  /\ pc \in {"task", "check"}
       => /\ success_count = Cardinality(OkNow)
          /\ \A k \in Positions :
               top_results[k].state # "pending"
                 <=> k <= (IF pc = "task" THEN i ELSE i + 1)
  /\ Returned
       => /\ summary.success <=> OkNow = Positions
          /\ summary.success => summary.completed_tasks = summary.total_tasks
          /\ summary.completed_tasks = Cardinality(OkNow)

C4_Witness ==
  /\ pc = "task" /\ plan_attempts = 2 /\ i = 0 /\ retry_count = 0
  /\ Len(tasks) = 2 /\ seen = {1, 2} /\ ever_ok = {1} /\ success_count = 0

\* C5: retry_count never exceeds max_retries; every retry of a registered
\* action adds one execution (plus one per selector repair); a task without
\* selector repair is executed at most max_retries + 1 times per attempt; a
\* failure is returned to execute_plan only from the execution at
\* retry_count = max_retries.
C5_BoundedRetries ==
  /\ retry_count <= max_retries
  /\ (counted_task >= 0 /\ repairs = 0) => execs <= max_retries + 1
  /\ (pc = "task" /\ retry_count > 0 /\ tasks[i + 1].action \in action_registry)
       => execs = retry_count + repairs
  /\ pc \in {"task", "check", "done"}
       => \A k \in FailedNow : top_results[k].retries = max_retries

C5_Witness ==
  /\ pc = "check" /\ max_retries = 2 /\ counted_task = 0 /\ repairs = 0
  /\ execs = 3 /\ top_results[1].state = "failed" /\ top_results[1].retries = 2

\* the action is registered and rejects the task's params before touching
\* the browser driver
FailsValidation(task) ==
  /\ task.action \in action_registry
  /\ \A r \in Execute(task.action, task) : ~r.success /\ ~r.driver

\* C6: a task whose action name is absent from the registry fails at once
\* and is not retried: execute_task is never re-entered for it (retry_count
\* stays 0) and the failure it returns comes from the first lookup.
C6_UnknownActionNotRetried ==
  /\ (pc = "task" /\ tasks[i + 1].action \notin action_registry) => retry_count = 0
  /\ pc \in {"task", "check", "done"}
       => \A k \in FailedNow :
            tasks[k].action \notin action_registry => top_results[k].retries = 0

\* C7: a task that fails parameter validation fails at once: the action does
\* not reach the browser driver and the Executor does not retry the task.
C7_ValidationNotRetried ==
  (pc = "task" /\ FailsValidation(tasks[i + 1]))
    => /\ retry_count = 0
       /\ counted_task = i => driver_calls = 0

\* C8: the substitution of the first suggested selector and the re-execution
\* of a failed extract happen exactly once per task: they are not repeated on
\* the later generic retries of the same task.
C8_RepairOnce == repairs <= 1

\* C9: last_inspect_result is reset at the start of every execute_plan call,
\* so a selector repair never uses an inspection stored by an earlier call.
C9_InspectResetPerPlan ==
  /\ (pc = "attempt" /\ plan_attempts = 0) => last_inspect_result = NoData
  /\ ~(repairs > 0 /\ inspect_stale)

\* C10: the collected_data of a successful execute_plan holds exactly the
\* entries of the extract / loop tasks that succeeded with non-empty data in
\* the final attempt, in task order; nothing collected during an earlier,
\* failed attempt is in it.
C10_CollectedFinalAttemptOnly ==
  (Returned /\ summary.success) => summary.collected_data = attempt_data

\* C11: the Executor never modifies a Task it consumes: from the call of
\* execute_plan to its return no step changes the task list (action,
\* params, params.selector), also under selector repair and plan retries.
C11_TasksUnmodified ==
  [][(pc \notin {"idle", "done", "raised"}) => tasks' = tasks]_vars

\* ------------------------------------------------------ Loop Engine claims
LoopRan == loop_pc = "returned" /\ loop_args.pattern # <<>>
Iterations == loop_result.metadata.iterations
ClickPagination ==
  loop_args.pagination.present /\ PaginationType(loop_args.pagination) = "click"
ConfiguredStopType == StopType(loop_args.stop_condition)
ConfiguredStopValue == StopValue(loop_args.stop_condition, loop_args.max_iterations)
Min(a, b) == IF a <= b THEN a ELSE b

\* C12 as stated: for any non-empty pattern and any value of max_iterations,
\* a loop called without a pagination spec performs exactly 1 iteration
\* (metadata.iterations = 1).
C12_SingleIterationAnyMax ==
  (LoopRan /\ ~loop_args.pagination.present) => Iterations = 1

\* C12 amended: for any non-empty pattern and any max_iterations >= 1, a
\* loop called without a pagination spec performs exactly 1 iteration and
\* reports metadata.iterations = 1.
C12_SingleIteration ==
  (LoopRan /\ ~loop_args.pagination.present /\ loop_args.max_iterations >= 1)
    => /\ Iterations = 1
       /\ iteration = 1
       /\ last_run.number = 1

C12_Witness ==
  /\ LoopRan /\ ~loop_args.pagination.present /\ loop_args.max_iterations >= 3
  /\ loop_args.on_empty = "continue" /\ loop_args.stop_condition = StopOn("no_next_button")
  /\ Iterations = 1 /\ ended_by = "no_pagination" /\ Len(loop_result.data) = 1

\* the loop's result holds the results of iteration 1 and nothing else
FirstIterationOnly ==
  /\ last_run.number = 1
  /\ loop_result.data = last_run.iteration_data
  /\ \A k \in 1..Len(loop_result.data) : loop_result.data[k].iteration = 1

\* C13 as stated: with click pagination whose selector never matches an
\* element, the loop ends after exactly 1 iteration with success = true,
\* stop_reason = the configured stop type (max_iterations when none is
\* configured) and data = the first iteration's results only.
C13_NeverMatchingSelectorAnyMax ==
  (LoopRan /\ ClickPagination /\ ~matched)
    => /\ Iterations = 1
       /\ loop_result.success
       /\ loop_result.metadata.stop_reason = ConfiguredStopType
       /\ FirstIterationOnly

\* C13 amended: the same, for max_iterations >= 1.
C13_NeverMatchingSelector ==
  (LoopRan /\ ClickPagination /\ ~matched /\ loop_args.max_iterations >= 1)
    => /\ Iterations = 1
       /\ loop_result.success
       /\ loop_result.error = <<>>
       /\ loop_result.metadata.stop_reason = ConfiguredStopType
       /\ FirstIterationOnly

C13_Witness ==
  /\ LoopRan /\ ClickPagination /\ ~matched /\ loop_args.max_iterations >= 3
  /\ loop_args.pagination.selector = <<"a.next">>
  /\ loop_args.stop_condition = StopOn("no_next_button")
  /\ last_page.iteration = 1 /\ ~last_page.raised /\ ~last_page.element.present
  /\ Iterations = 1 /\ loop_result.metadata.stop_reason = "no_next_button"
  /\ Len(loop_result.data) = 1

\* C14: with click pagination, stop_condition {type: max_iterations, value:
\* N}, N <= max_iterations and every iteration producing data, a loop that
\* finds the next control absent after iteration k < N performs exactly k
\* iterations (metadata.iterations = k), and the loop ends before iteration N
\* only because the pagination of its last iteration reported no next page.
C14_StopsWhenNextDisappears ==
  (/\ LoopRan /\ ClickPagination /\ all_produced
   /\ loop_args.stop_condition.present /\ loop_args.stop_condition.has_value
   /\ ConfiguredStopType = "max_iterations"
   /\ loop_args.stop_condition.value <= loop_args.max_iterations)
    => /\ (/\ last_page.iteration >= 1
           /\ ~last_page.element.present
           /\ last_page.iteration < loop_args.stop_condition.value)
            => /\ Iterations = last_page.iteration
               /\ loop_result.success
               /\ Len(loop_result.data) >= Iterations
       /\ Iterations < loop_args.stop_condition.value
            => last_page.iteration = Iterations /\ ~last_page.has_next

C14_Witness ==
  /\ LoopRan /\ ClickPagination /\ all_produced
  /\ loop_args.stop_condition = StopAt("max_iterations", 3)
  /\ loop_args.max_iterations = 3
  /\ last_page.iteration = 2 /\ ~last_page.element.present /\ ~last_page.raised
  /\ Iterations = 2 /\ Len(loop_result.data) = 2

\* C15: the number of iterations never exceeds max_iterations and is what
\* metadata.iterations reports; with stop type max_iterations and value
\* v >= 1 the loop has stopped as soon as iteration >= v, so it performs at
\* most min(v, max_iterations) iterations, also with scroll pagination that
\* always succeeds and on_empty = continue.
C15_BoundedIterations ==
  /\ iteration <= loop_args.max_iterations
  /\ LoopRan => Iterations = iteration
  /\ (ConfiguredStopType = "max_iterations" /\ ConfiguredStopValue >= 1)
       => /\ iteration <= Min(ConfiguredStopValue, loop_args.max_iterations)
          /\ iteration >= ConfiguredStopValue => loop_pc = "returned"
          /\ ended_by = "stop_value" => iteration = ConfiguredStopValue

C15_Witness ==
  /\ LoopRan /\ loop_args.pagination = Pagination("scroll", <<>>)
  /\ loop_args.on_empty = "continue" /\ loop_args.max_iterations >= 3
  /\ loop_args.stop_condition = StopAt("max_iterations", 2)
  /\ last_page.iteration = 1 /\ last_page.has_next
  /\ Iterations = 2 /\ ended_by = "stop_value" /\ loop_result.data = <<>>

\* the latest pass over the pattern had a failed step
StepFailed == last_run.number >= 1 /\ ~last_run.pattern_success
\* the pagination of the latest iteration reported a next page
NextPageReported == last_page.iteration = last_run.number /\ last_page.has_next

\* what C16 says of every state: the failed step is the last one executed,
\* the data of the steps before it is in collected_data, and a returned
\* loop reports success
C16_AbortsIterationOnly ==
  /\ StepFailed
       => /\ last_run.executed = last_run.failed_at
          /\ \A k \in 1..Len(last_run.iteration_data) :
               last_run.iteration_data[k].step < last_run.failed_at
  /\ (StepFailed /\ last_run.iteration_data # <<>>)
       => loop_collected_data = last_run.before \o last_run.iteration_data
  /\ (StepFailed /\ LoopRan)
       => /\ loop_result.success
          /\ loop_result.error = <<>>
          /\ loop_result.data = loop_collected_data

\* C16 as stated: a failed pattern step ends its iteration only (the later
\* steps are not executed, the data of the earlier steps is appended, the
\* loop does not fail), and when the iteration has partial data or on_empty
\* is continue and pagination reports a next page, the next iteration is
\* executed.
C16_StepFailureNextIterationAlways ==
  [][/\ C16_AbortsIterationOnly'
     /\ (StepFailed /\ NextPageReported /\ loop_pc = "while")
          => /\ iteration' = iteration + 1
             /\ last_run'.number = iteration']_vars

\* C16 amended: the same, the next iteration being executed when the
\* iteration count is still below max_iterations.
C16_StepFailureNextIteration ==
  [][/\ C16_AbortsIterationOnly'
     /\ (/\ StepFailed /\ NextPageReported /\ loop_pc = "while"
         /\ iteration < loop_args.max_iterations)
          => /\ iteration' = iteration + 1
             /\ last_run'.number = iteration'
             /\ last_run'.previous_failed]_vars

C16_Witness ==
  /\ LoopRan /\ loop_args.pattern = <<StepExtract, StepClick>>
  /\ loop_args.on_empty = "stop"
  /\ last_run.number = 2 /\ last_run.previous_failed
  /\ last_run.before = <<Item(1, 1)>>
  /\ last_page.iteration = 1 /\ last_page.has_next
  /\ loop_result.success /\ Len(loop_result.data) = 2

\* the latest pass over the pattern produced no data
EmptyIteration == last_run.number >= 1 /\ last_run.iteration_data = <<>>

\* C17: an iteration without data under on_empty = stop ends the loop in
\* that iteration, without a _paginate call, with success = true and exactly
\* the data of the earlier iterations; under on_empty = continue an empty
\* iteration ends the loop only through the empty_results stop type (or the
\* stops every iteration is subject to: the stop value, a missing
\* pagination spec, no next page, max_iterations).
C17_EmptyIteration ==
  /\ (EmptyIteration /\ loop_args.on_empty = "stop")
       => /\ loop_pc = "returned"
          /\ ended_by = "on_empty"
          /\ loop_result.success
          /\ loop_result.data = last_run.before
          /\ Iterations = last_run.number
          /\ last_page.iteration < last_run.number
  /\ ended_by = "on_empty" => (EmptyIteration /\ loop_args.on_empty = "stop")
  /\ ended_by = "empty_results"
       => (EmptyIteration /\ ConfiguredStopType = "empty_results")
  /\ (/\ EmptyIteration /\ loop_args.on_empty = "continue"
      /\ ConfiguredStopType # "empty_results"
      /\ ~StopValueReached(ConfiguredStopType, last_run.number, ConfiguredStopValue)
      /\ loop_args.pagination.present)
       => \/ loop_pc = "paginate"
          \/ last_page.iteration = last_run.number

C17_Witness ==
  /\ LoopRan /\ loop_args.on_empty = "stop" /\ EmptyIteration
  /\ loop_args.pagination = Pagination("click", <<"a.next">>)
  /\ last_run.number = 2 /\ last_page.iteration = 1
  /\ ended_by = "on_empty" /\ loop_result.data = <<Item(1, 1)>>

\* the selector matched a control that carries the disabled attribute
AttributeGiven(value) == value # None

\* C18: for click pagination, a next control that is absent or carries the
\* disabled attribute (with any value, the empty string of a bare attribute
\* included) makes _paginate report no next page without a click() call;
\* any other control is clicked exactly once and a next page is reported.
C18_DisabledNotClicked ==
  (last_page.iteration >= 1 /\ ClickPagination /\ ~last_page.raised)
    => IF ~last_page.element.present \/ AttributeGiven(last_page.element.disabled)
       THEN last_page.clicks = 0 /\ ~last_page.has_next
       ELSE last_page.clicks = 1 /\ last_page.has_next

\* C19: an exception raised inside _paginate (click or scroll) counts as no
\* next page: the loop returns after the current iteration with
\* success = true, no error, and all the data collected so far, the current
\* iteration's included.
C19_PaginationExceptionBenign ==
  (last_page.iteration >= 1 /\ last_page.raised)
    => /\ ~last_page.has_next
       /\ loop_pc = "returned"
       /\ ended_by = "no_next_page"
       /\ loop_result.success
       /\ loop_result.error = <<>>
       /\ Iterations = last_page.iteration
       /\ last_run.number = last_page.iteration
       /\ loop_result.data = last_run.before \o last_run.iteration_data

C19_Witness ==
  /\ LoopRan /\ loop_args.pagination = Pagination("scroll", <<>>)
  /\ last_page.iteration = 2 /\ last_page.raised
  /\ loop_result.success /\ Iterations = 2
  /\ loop_result.data = <<Item(1, 1), Item(2, 1)>>

\* ---------------------------------------------------------- recorder claims
\* C20: between start_session and end_session the recorder's list is
\* append-only: a step of the session either leaves the logged entries as
\* they are or appends exactly one entry at the end, and no logged entry
\* changes in any field, its params included, on a later selector repair or
\* plan attempt.  (The steps are those of the execute_plan call that owns
\* the session: the entries refer to the task dicts of its list.)
C20_AppendOnly ==
  [][(pc # "idle" /\ pc' # "idle" /\ session_id # None /\ session_id' # None)
       => LET before == LoggedActions(actions, tasks)
              after == LoggedActions(actions', tasks')
          IN /\ Len(after) \in {Len(before), Len(before) + 1}
             /\ SubSeq(after, 1, Len(before)) = before]_vars

\* ------------------------------------------------------ recorder, replayer
SessionEnds == session_id # None /\ session_id' = None
SessionStarts == session_id' # None /\ session_id' # session_id
Stored == DOMAIN logs

\* C21: end_session writes the buffered entries as the one record of the
\* current session id and clears session_id and the buffer; a session
\* started afterwards begins with an empty buffer, and the record written
\* for it holds exactly as many entries as were logged in that session, none
\* of an earlier session
C21_SessionsUnrelated ==
  [][/\ SessionEnds =>
          /\ Stored' = Stored \cup {session_id}
          /\ ReadLog(logs', session_id).session_id = session_id
          /\ ReadLog(logs', session_id).actions = LoggedActions(actions, tasks)
          /\ ReadLog(logs', session_id).action_count = Len(logged)
          /\ actions' = <<>>
     /\ SessionStarts => actions' = <<>> /\ session_id' \notin Stored']_vars

C21_Witness ==
  \E a \in Stored, b \in Stored :
    /\ a # b
    /\ get_log(a).action_count = MaxLogged
    /\ get_log(b).action_count = 1
    /\ get_log(b).actions[1] \notin {get_log(a).actions[k] : k \in 1..MaxLogged}


\* C22: when a session ends, get_log of its id returns a record whose
\* action_count is the number of log_action calls of the session and whose
\* actions are the entries handed to log_action, in order, field for field
C22_RoundTrip ==
  [][SessionEnds =>
       /\ ReadLog(logs', session_id).action_count = Len(logged)
       /\ ReadLog(logs', session_id).actions = logged]_vars

\* C23: a session record that has been written stays as it is: no step, of
\* a replay or of a later session, removes or changes the file of a stored
\* session id
C23_RecordImmutable ==
  [][\A id \in Stored : id \in Stored' /\ logs'[id] = logs[id]]_vars

C23_Witness ==
  /\ Cardinality(Stored) = 2
  /\ \A id \in Stored : get_log(id).action_count > 0
  /\ replay_pc = "returned"
  /\ replay_args.session_id \in Stored
  /\ Len(replay_result.results) = get_log(replay_args.session_id).action_count

\* C24: a replay called with a session id that has no file returns at once
\* success = False with the error "Session not found: <id>", without a pass
\* of the loop over actions and without a call on the page
C24_SessionNotFound ==
  (replay_pc # "idle" /\ replay_args.session_id \notin Stored) =>
    /\ replay_pc = "returned"
    /\ ~replay_result.success
    /\ replay_result.error = ErrSessionNotFound(replay_args.session_id)
    /\ replay_result.results = <<>>
    /\ results = <<>>
    /\ replay_i = 0
    /\ page_calls = <<>>

C24_Witness ==
  /\ replay_pc = "returned"
  /\ replay_args.session_id = MissingSessionId
  /\ replay_args.caller = "Orchestrator.replay"
  /\ \E id \in Stored : get_log(id).action_count > 0

Replaying == replay_pc # "idle" /\ replay_actions # <<>>
ReplayDone == replay_pc = "returned" /\ replay_actions # <<>>

\* results[k] is an outcome of the k-th recorded action
OutcomeOf(k) ==
  \E outcome \in execute_action(replay_actions[k].action, replay_actions[k].params,
                                 replay_args.action_registry) :
    results[k] = ResultEntry(outcome)

\* C25: the recorded actions are replayed one at a time in recorded order
\* (results[k] is the outcome of the k-th action, the calls on the page are
\* made in that order and for replayed actions only); with stop_on_error the
\* replay ends at the first action that fails or raises, results is the
\* outcomes up to and including it and success is False; without it every
\* recorded action has its outcome in results
C25_ReplayPrefix ==
  Replaying =>
    /\ Len(results) <= Len(replay_actions)
    /\ \A k \in 1..Len(results) : OutcomeOf(k)
    /\ \A c \in 1..Len(page_calls) :
         /\ page_calls[c].action <= Len(results)
         /\ c > 1 => page_calls[c - 1].action <= page_calls[c].action
    /\ replay_args.stop_on_error =>
         \A k \in 1..(Len(results) - 1) : results[k].success
    /\ ReplayDone =>
         /\ replay_result.results = results
         /\ IF replay_args.stop_on_error
            THEN /\ Len(results) < Len(replay_actions) => ~results[Len(results)].success
                 /\ ~results[Len(results)].success => ~replay_result.success
            ELSE Len(results) = Len(replay_actions)

C25_Witness ==
  /\ ReplayDone
  /\ replay_args.stop_on_error
  /\ Len(replay_actions) = MaxLogged
  /\ Len(replay_result.results) = 1
  /\ ~replay_result.success
  /\ page_calls # <<>>

Succeeded == {k \in 1..Len(replay_result.results) : replay_result.results[k].success}
LiteralKinds == {"navigate", "wait", "click"}

\* C26: the result of replaying a session with at least one action has
\* success = True exactly when every recorded action has an outcome and every
\* outcome is a success, which is when successful_actions = total_actions;
\* successful_actions counts the successful outcomes, total_actions the
\* recorded actions, and successful_actions <= len(results) <= total_actions
C26_SuccessIffAll ==
  ReplayDone =>
    /\ replay_result.total_actions = Len(replay_actions)
    /\ replay_result.successful_actions = Cardinality(Succeeded)
    /\ replay_result.successful_actions <= Len(replay_result.results)
    /\ Len(replay_result.results) <= replay_result.total_actions
    /\ replay_result.success <=>
         replay_result.successful_actions = replay_result.total_actions
    /\ replay_result.success <=>
         /\ Len(replay_result.results) = Len(replay_actions)
         /\ \A k \in 1..Len(replay_actions) : replay_result.results[k].success

C26_Witness ==
  /\ ReplayDone
  /\ Len(replay_actions) = MaxLogged
  /\ \A k \in 1..Len(replay_actions) : replay_actions[k].action \in LiteralKinds
  /\ \E k \in 1..Len(replay_actions) : replay_actions[k].action = "click"
  /\ replay_result.success
  /\ replay_result.successful_actions = replay_result.total_actions

Extracts == {k \in 1..Len(results) : replay_actions[k].action = "extract"}

\* C27: a recorded extract action is not executed during replay: no call on
\* the page is made for it, its outcome is a success marked as skipped, and
\* it is counted in successful_actions
C27_ExtractSkipped ==
  Replaying =>
    /\ \A k \in Extracts :
         /\ results[k].success
         /\ results[k].skipped
         /\ \A c \in 1..Len(page_calls) : page_calls[c].action # k
    /\ replay_success_count >= Cardinality(Extracts)
    /\ ReplayDone =>
         replay_result.successful_actions =
           Cardinality(Extracts) + Cardinality(Succeeded \ Extracts)

C27_Witness ==
  /\ ReplayDone
  /\ replay_args.action_registry = action_registry
  /\ Len(replay_actions) = MaxLogged
  /\ replay_actions[1].action = "extract"
  /\ replay_actions[2].action = "navigate"
  /\ replay_result.successful_actions = 1
  /\ page_calls # <<>>

\* C28: in a replay through Orchestrator.replay, a recorded action of a kind
\* of the action registry is dispatched to an implementation: its outcome is
\* never the "Unknown action" failure
C28_RegisteredKindsReplayed ==
  (Replaying /\ replay_args.caller = "Orchestrator.replay") =>
    \A k \in 1..Len(results) :
      replay_actions[k].action \in action_registry =>
        results[k].error # ErrUnknownAction(replay_actions[k].action)

\* C30: a pattern step whose action name is not in the registry of the loop
\* fails with "Unknown action: <name>" without reaching the browser, so the
\* pass over the pattern that executes it ends at that step as failed
C30_RegistryMissIsUnknown ==
  \A k \in 1..Len(loop_args.pattern) :
    LET step == loop_args.pattern[k]
    IN (/\ last_run.number >= 1
        /\ last_run.executed >= k
        /\ step.action # None
        /\ step.action \notin loop_args.registry) =>
         /\ last_run.failed_at = k
         /\ \A result \in execute_step(step, loop_args.registry) :
              result.error = ErrUnknownAction(step.action) /\ ~result.driver

\* the components that are between a call and its return
Driving ==
  {c \in {"run", "loop", "replay"} :
     \/ c = "run" /\ pc \in {"attempt", "task", "check"}
     \/ c = "loop" /\ loop_pc \notin {"idle", "returned"}
     \/ c = "replay" /\ replay_pc = "action"}

\* C29: one action at a time, in issuing order.  Executor: while task i+1 of
\* an attempt is being executed (with its retries, which are counted for
\* that task), the tasks before it have their final outcome and no later
\* task has been started.  Loop: the steps executed in an iteration are a
\* prefix of the pattern, ending at the first failed step, their data is in
\* step order, and the pagination of an iteration follows its pattern.
\* Replay: the outcomes are those of a prefix of the recorded actions, and
\* the calls on the page follow the recorded order.  No two of the three
\* drive the page at once
C29_OneActionAtATime ==
  /\ Cardinality(Driving) <= 1
  /\ pc = "task" =>
       /\ i < Len(tasks)
       /\ \A k \in Positions :
            /\ k <= i => top_results[k].state # "pending"
            /\ k > i => top_results[k].state = "pending"
       /\ retry_count > 0 => counted_task = i
       /\ retry_count <= max_retries
  /\ last_run.number >= 1 =>
       /\ last_run.executed <= Len(loop_args.pattern)
       /\ last_run.failed_at \in {0, last_run.executed}
       /\ last_run.pattern_success <=> last_run.failed_at = 0
       /\ last_run.pattern_success => last_run.executed = Len(loop_args.pattern)
       /\ \A k \in 1..Len(last_run.iteration_data) :
            /\ last_run.iteration_data[k].step <= last_run.executed
            /\ k > 1 => last_run.iteration_data[k - 1].step
                           < last_run.iteration_data[k].step
       /\ last_page.iteration <= last_run.number
  /\ Replaying =>
       /\ Len(results) = replay_i + (IF replay_pc = "returned" THEN 1 ELSE 0)
       /\ \A c \in 1..Len(page_calls) :
            /\ page_calls[c].action <= Len(results)
            /\ c > 1 => page_calls[c - 1].action <= page_calls[c].action

C29_Witness ==
  /\ pc = "task" /\ i = 1 /\ retry_count = MaxRetriesBound
  /\ top_results[1].state = "failed" /\ top_results[1].retries = MaxRetriesBound
  /\ top_results[2].state = "pending"
  /\ repairs > 0

\* ---------------------------------------------------------------------------
\* C33: for a non-empty task list, whatever max_retries >= 0 and whatever the
\* browser does, execute_plan returns a summary and seals the session it
\* started: no call ends in an exception, and once the call is over (the
\* summary is returned, the Executor is idle again) no session is open.
C33_SessionAlwaysSealed ==
  /\ pc # "raised"
  /\ pc \in {"done", "idle"} => session_id = None

\* ---------------------------------------------------------------------------
\* C36: with stop_on_error = false the for loop of an attempt runs every task
\* even after an earlier one failed (when the loop is left no task is
\* pending, and while it runs the tasks before the current one all have an
\* outcome, failed ones included); the attempt fails as soon as one task
\* failed; the failed_task of the returned summary is the failing task with
\* the highest index of the final attempt, with that task's error.
LastFailed == CHOOSE k \in FailedNow : \A other \in FailedNow : other <= k

C36_ContinuesPastFailure ==
  (~stop_on_error /\ tasks # <<>> /\ plan_attempts >= 1) =>
    /\ pc = "task" => \A k \in Positions : k <= i <=> top_results[k].state # "pending"
    /\ pc \in {"check", "done"} => \A k \in Positions : top_results[k].state # "pending"
    /\ pc = "check" => (PlanSucceeded(success_count, tasks) <=> FailedNow = {})
    /\ pc = "done" =>
         /\ summary.success <=> FailedNow = {}
         /\ FailedNow # {} =>
              /\ summary.kind = "failure"
              /\ summary.attempts = plan_attempts
              /\ summary.failed_task.present
              /\ summary.failed_task.index = LastFailed - 1
              /\ summary.failed_task.error = top_results[LastFailed].error
              /\ summary.failed_task.task = tasks[LastFailed]

\* a second attempt in which the first task failed, the second task was run
\* all the same and failed too, and the summary names the second
C36_Witness ==
  /\ pc = "done" /\ ~stop_on_error /\ plan_attempts = 2 /\ Len(tasks) = 2
  /\ FailedNow = {1, 2}
  /\ summary.failed_task.index = 1
  /\ top_results[1].error # top_results[2].error

\* ---------------------------------------------------------------------------
\* C39: a replay call for a session that is stored and whose actions list is
\* empty returns success = false with the error "No actions to replay" and
\* no result entry, and issues no call on the page; an execute_plan call
\* with an empty task list returns success = false with the error "No tasks to
\* execute", and the step leaves the recorder (session, buffer, files)
\* and collected_data as they were.
EmptySessionReplayed ==
  /\ replay_pc = "returned"
  /\ ReadLog(logs, replay_args.session_id) # NoLog
  /\ ReadLog(logs, replay_args.session_id).actions = <<>>

EmptyPlanReturned == pc = "done" /\ tasks = <<>>

C39_EmptyInputsRejected ==
  [][/\ (replay_pc = "idle" /\ EmptySessionReplayed') =>
          /\ replay_result'.success = FALSE
          /\ replay_result'.error = <<"No", "actions", "to", "replay">>
          /\ replay_result'.results = <<>>
          /\ results' = <<>>
          /\ page_calls' = <<>>
     /\ (pc = "idle" /\ EmptyPlanReturned') =>
          /\ summary'.success = FALSE
          /\ summary'.error = <<"No", "tasks", "to", "execute">>
          /\ summary'.kind = "no_tasks"
          /\ UNCHANGED <<recorder_vars, collected_data>>
          /\ execs' = 0 /\ driver_calls' = 0]_vars

\* the stored session with no action has been replayed
C39_Witness ==
  /\ EmptySessionReplayed
  /\ replay_args.session_id = StoredSessionId
  /\ replay_result.error = ErrNoActions
  /\ page_calls = <<>>

\* ---------------------------------------------------------------------------
\* C37: whenever replay reports success for a recorded click, exactly one
\* click was issued on the page for that action, also when the click was
\* recorded with a role only (no selector and no text).
ClicksFor(k) ==
  {c \in 1..Len(page_calls) : page_calls[c].action = k /\ page_calls[c].call = "click"}

C37_ClickReplayedOnce ==
  Replaying =>
    \A k \in 1..Len(results) :
      (replay_actions[k].action = "click" /\ results[k].success)
        => Cardinality(ClicksFor(k)) = 1

\* ---------------------------------------------------------------------------
\* C38: _paginate is called at most once in an iteration (the k-th call is
\* made in iteration k), only after the data of that iteration has been
\* appended to collected_data, and not in an iteration in which the on_empty
\* stop or the configured stop condition fired; so a loop ended by its
\* max_iterations stop condition in iteration n has made exactly n - 1
\* pagination calls.
StopFired == ended_by \in {"on_empty", "stop_value", "empty_results"}

C38_PaginationPlacement ==
  /\ paginations <= iteration
  /\ paginations >= 1 => last_page.iteration = paginations
  /\ loop_pc = "paginate" =>
       /\ paginations = iteration - 1
       /\ last_run.number = iteration
       /\ loop_collected_data = last_run.before \o last_run.iteration_data
       /\ ~EmptyStops(last_run.iteration_data, loop_args.on_empty)
       /\ ~StopValueReached(ConfiguredStopType, iteration, ConfiguredStopValue)
       /\ ~EmptyResultsStop(ConfiguredStopType, last_run.iteration_data)
  /\ (loop_pc = "while" /\ iteration >= 1) => paginations = iteration
  /\ (loop_pc = "returned" /\ StopFired) => paginations = iteration - 1
  /\ (loop_pc = "returned" /\ ended_by = "stop_value") =>
       /\ ConfiguredStopType = "max_iterations"
       /\ Iterations = iteration
       /\ paginations = Iterations - 1

\* the max_iterations stop condition ended the loop in its third iteration,
\* after two pagination calls
C38_Witness ==
  /\ loop_pc = "returned" /\ ended_by = "stop_value"
  /\ Iterations = 3 /\ paginations = 2
  /\ last_page.iteration = 2 /\ last_run.number = 3

\* ---------------------------------------------------------------------------
\* C31: an execute_task invocation reloads the page exactly when its
\* execution failed, a retry remains (retry_count < max_retries) and the error
\* text contains "timeout" in any case; for any other error, and when
\* retry_count = max_retries, it does not reload; the reload comes before the
\* retry (retry_count + 1 of the same task), which follows unless the reload
\* itself raises.
CallFailed == last_call.ran /\ ~last_call.result.success
RetryRemains == last_call.retry_count < max_retries

C31_ReloadIffTimeout ==
  last_call.ran =>
    /\ last_call.reloaded <=>
         (CallFailed /\ RetryRemains /\ ContainsTimeout(last_call.result.error))
    /\ (CallFailed /\ last_call.retry_count = max_retries) => ~last_call.reloaded
    /\ last_call.raised => last_call.reloaded /\ pc = "raised"
    /\ (last_call.reloaded /\ ~last_call.raised) =>
         /\ pc = "task"
         /\ counted_task = i
         /\ retry_count = last_call.retry_count + 1

\* a first execution failed with Playwright's "Timeout 5000ms exceeded.", the
\* page was reloaded and the retry is about to run
C31_Witness ==
  /\ last_call.ran /\ last_call.reloaded /\ ~last_call.raised
  /\ last_call.result.error = ErrTimeout
  /\ last_call.retry_count = 0
  /\ pc = "task" /\ retry_count = 1

\* a failure with another error is retried without a reload
RetriedWithoutReload ==
  /\ CallFailed /\ RetryRemains /\ ~last_call.reloaded
  /\ last_call.result.error = ErrDriver
  /\ pc = "task" /\ retry_count = last_call.retry_count + 1

\* ---------------------------------------------------------------------------
\* C32: selector repair is attempted only on a failed extract result.  An
\* invocation whose first execution succeeded executes once, does not
\* re-execute with a suggested selector and leaves the task's params alone;
\* that first result is what execute_task returns, what is logged, and (for
\* an extract or loop with data) what is collected.
C32_RepairOnlyAfterFailure ==
  [][pc = "task" =>
       LET task == tasks[i + 1]
           first == last_call'.first
           fresh == retry_count = 0
       IN /\ last_call'.repaired => ~first.success /\ task.action = "extract"
          /\ first.success =>
               /\ ~last_call'.repaired
               /\ last_call'.result = first
               /\ execs' = (IF fresh THEN 0 ELSE execs) + 1
               /\ repairs' = (IF fresh THEN 0 ELSE repairs)
               /\ tasks' = tasks
               /\ pc' \in {"task", "check"}
               /\ retry_count' = 0
               /\ top_results'[i + 1] = [state |-> "ok", error |-> first.error,
                                         retries |-> retry_count]
               /\ actions' = Append(actions, [task |-> i + 1, success |-> TRUE,
                                              error |-> first.error])
               /\ collected_data' =
                    IF first.data \notin {NoData, EmptyData}
                       /\ task.action \in {"extract", "loop"}
                    THEN Append(collected_data,
                                [action |-> task.action, data |-> first.data,
                                 save_as |-> task.save_as])
                    ELSE collected_data]_vars

\* an extract succeeded at its first execution while an inspection with
\* suggested selectors is stored and retries remain; its rows are collected
C32_Witness ==
  /\ last_call.ran /\ last_call.first.success /\ last_call.first.data = Rows
  /\ counted_task = 1 /\ tasks[2].action = "extract"
  /\ Truthy(last_inspect_result) /\ last_inspect_result.suggested_selectors # <<>>
  /\ last_call.retry_count < max_retries
  /\ top_results[2].state = "ok"
  /\ Len(collected_data) = 1 /\ collected_data[1].data = Rows
  /\ actions # <<>> /\ actions[Len(actions)].task = 2 /\ actions[Len(actions)].success

\* ---------------------------------------------------------------------------
\* C34: each execute_task call that execute_plan makes appends exactly one
\* entry to the recorder, when it returns, however many retries and repairs
\* it went through: an invocation that ends in a retry logs nothing, the
\* returning invocation appends one entry with the success and error of its
\* last execution and the params that execution ran with (the suggested
\* selector after a repair), no other step of the run appends, and the
\* number of entries is the number of calls that have returned.
CallInProgress == (pc = "task" /\ retry_count > 0) \/ (pc = "raised" /\ last_call.raised)

C34_OneEntryPerCall ==
  [][/\ pc = "task" =>
          IF pc' = "task" /\ i' = i /\ retry_count' = retry_count + 1
          THEN actions' = actions
          ELSE IF pc' = "raised"
          THEN actions' = actions
          ELSE LET entries == LoggedActions(actions', tasks')
                   entry == entries[Len(entries)]
               IN /\ actions' = Append(actions, [task |-> i + 1,
                                                 success |-> last_call'.result.success,
                                                 error |-> last_call'.result.error])
                  /\ entry.action = tasks[i + 1].action
                  /\ entry.params =
                       IF last_call'.repaired
                       THEN [tasks[i + 1] EXCEPT
                               !.selector = SplitFirst(
                                  last_inspect_result'.suggested_selectors[1])]
                       ELSE tasks[i + 1]
     /\ (pc \in {"attempt", "check"} /\ pc' # "done") => actions' = actions
     /\ pc' \in {"attempt", "task", "check", "raised"} =>
          Len(actions') = calls_started' - (IF CallInProgress' THEN 1 ELSE 0)]_vars

\* the second call of the run executed its extract at every retry_count,
\* repaired the selector on the way, and returned: one entry for it
C34_Witness ==
  /\ pc = "check" /\ retry_count = 0 /\ counted_task = 1
  /\ calls_started = 2 /\ Len(actions) = 2
  /\ last_call.retry_count = MaxRetriesBound
  /\ execs > MaxRetriesBound + 1 /\ repairs >= 1
  /\ ~actions[2].success /\ actions[2].error = last_call.result.error

\* ---------------------------------------------------------------------------
\* C35: the session execute_plan seals holds the entries of all its plan
\* attempts: its action_count is the number of execute_task calls made over
\* all attempts, so after a success in attempt n > 1 the entries of the
\* failed attempts come before the len(tasks) successful ones; its success
\* flag is the summary's success, and on failure its error is the error of
\* the summary's failed_task.
C35_SessionHoldsAllAttempts ==
  [][(SessionEnds /\ pc \in {"attempt", "check"}) =>
       LET log_data == ReadLog(logs', session_id)
           earlier == log_data.action_count - Len(tasks)
       IN /\ log_data.action_count = calls_started
          /\ Len(log_data.actions) = calls_started
          /\ log_data.success = summary'.success
          /\ ~summary'.success =>
               /\ summary'.failed_task.present
               /\ log_data.error = summary'.failed_task.error
          /\ summary'.success =>
               /\ log_data.error = <<>>
               /\ earlier >= plan_attempts - 1
               /\ \A k \in 1..Len(tasks) : log_data.actions[earlier + k].success
               /\ plan_attempts > 1 =>
                    \E k \in 1..earlier : ~log_data.actions[k].success]_vars

\* sealed after a success in the second attempt: the record starts with the
\* failed entry of the first attempt
C35_Witness ==
  /\ pc = "done" /\ summary.success /\ summary.attempts = 2
  /\ FirstSessionId \in Stored
  /\ get_log(FirstSessionId).success
  /\ get_log(FirstSessionId).action_count = 3
  /\ ~get_log(FirstSessionId).actions[1].success

====
